---------------------------- MODULE Spec2Model ----------------------------
(***************************************************************************)
(* Model of the relationshipGraph Lightning web component                  *)
(* (force-app/main/default/lwc/relationshipGraph/relationshipGraph.js).    *)
(*                                                                         *)
(* Three specifications share the variables below:                         *)
(*   Spec         the component's life cycle: script and config loading,   *)
(*                load / refresh requests and their responses, toggles,    *)
(*                the threshold debounce timer and teardown;               *)
(*   SpecProcess  processGraphData applied once to a payload drawn from a  *)
(*                bounded set of payloads, under either hierarchy setting; *)
(*   SpecCluster  computeClusters' label propagation, one pass per step,   *)
(*                every visiting order of every pass.                      *)
(*                                                                         *)
(* Conventions.  A JavaScript value that is undefined, null or '' is the   *)
(* empty string "" here.  A node object is identified by its position in   *)
(* the node list (this.nodes); an edge end that holds a node object holds  *)
(* that position, and 0 stands for undefined.                              *)
(***************************************************************************)
EXTENDS Integers, Sequences, FiniteSets, TLC

(***************************************************************************)
(* Bounds of the model                                                     *)
(***************************************************************************)
\* largest number of nodes in a payload drawn for SpecProcess
MaxPayloadNodes == 3
\* largest number of edges in a payload drawn for SpecProcess
MaxPayloadEdges == 2
\* largest number of Contact nodes in a graph drawn for SpecCluster
MaxContacts == 5
\* number of load / refresh requests the life cycle may issue
MaxRequests == 2

(***************************************************************************)
(* Program constants                                                       *)
(***************************************************************************)
\* for (let iter = 0; iter < 10; iter++)
MaxPasses == 10

(***************************************************************************)
(* Sequence helpers                                                        *)
(***************************************************************************)
RECURSIVE SeqOfSet(_, _)
\* the elements of seq at the positions in idx, in the order of seq
SeqOfSet(seq, idx) ==
    IF idx = {} THEN << >>
    ELSE LET m == CHOOSE i \in idx : \A j \in idx : j <= i
         IN  Append(SeqOfSet(seq, idx \ {m}), seq[m])

\* the subsequences of pool with at most k elements
SubSeqs(pool, k) ==
    { SeqOfSet(pool, idx) : idx \in { s \in SUBSET DOMAIN pool : Cardinality(s) <= k } }

(***************************************************************************)
(* Payload nodes and edges                                                 *)
(***************************************************************************)
\* a node of a payload; "" stands for a field that is absent
PNode(id, type, hier, moved, prevCo, prevCoId) ==
    [ id |-> id, nodeType |-> type, isHierarchyAccount |-> hier,
      hasMovedCompany |-> moved, previousCompany |-> prevCo,
      previousCompanyId |-> prevCoId, classification |-> "",
      hierarchyLevel |-> "" ]

\* the payload node n with the classification c
Classified(n, c) == [ n EXCEPT !.classification = c ]

PEdge(s, t, type, count) ==
    [ source |-> s, target |-> t, edgeType |-> type, interactionCount |-> count ]

\* the nodes payloads are drawn from (SpecProcess)
NodePool ==
    << PNode("acc", "Account", FALSE, FALSE, "", ""),
       PNode("par", "Account", TRUE,  FALSE, "", ""),
       PNode("m1",  "Contact", FALSE, TRUE,  "Rival Corp", "co1"),
       PNode("m2",  "Contact", FALSE, TRUE,  "Rival Corp", "co1"),
       PNode("m3",  "Contact", FALSE, TRUE,  "Other Corp", ""),
       PNode("m4",  "Contact", FALSE, TRUE,  "", ""),
       PNode("p1",  "Contact", FALSE, FALSE, "", ""),
       PNode("op",  "Opportunity", FALSE, FALSE, "", "") >>

\* the edges payloads are drawn from (SpecProcess)
EdgePool ==
    << PEdge("m1", "acc", "account_relationship", 12),
       PEdge("p1", "par", "account_relationship", 3),
       PEdge("m1", "p1",  "co_occurrence", 5),
       PEdge("acc", "par", "hierarchy", 0),
       PEdge("p1", "ghost", "co_occurrence", 1),
       PEdge("op", "p1", "opportunity_role", 2) >>

\* a payload: kind "null" is a null response, "nonodes" an object without a
\* nodes list, "data" an object with nodes and edges
Payload(kind, ns, es) ==
    [ kind |-> kind, nodes |-> ns, edges |-> es, riskAlerts |-> << >>,
      isTruncated |-> FALSE, totalContactCount |-> 0, warnings |-> << >> ]

\* a risk alert of the payload: its subject ("" when it has none) and its
\* severity
RiskAlert(contactId, severity) == [ contactId |-> contactId, severity |-> severity ]

\* the payload p with the list alerts as its riskAlerts
WithRiskAlerts(p, alerts) == [ p EXCEPT !.riskAlerts = alerts ]

\* the payload p with the fields isTruncated, totalContactCount and warnings
\* set; a payload without warnings has the empty list
WithNotices(p, truncated, total, warnings) ==
    [ p EXCEPT !.isTruncated = truncated, !.totalContactCount = total,
               !.warnings = warnings ]
NullPayload == Payload("null", << >>, << >>)
NoNodesPayload == Payload("nonodes", << >>, << >>)

RichPayloads ==
    { Payload("data", ns, es) :
        ns \in SubSeqs(NodePool, MaxPayloadNodes),
        es \in SubSeqs(EdgePool, MaxPayloadEdges) }
      \cup { NullPayload, NoNodesPayload }

(***************************************************************************)
(* Node styling                                                            *)
(***************************************************************************)
VARIABLE
    activeFilters           \* this.activeFilters, which getNodeColor reads

\* the classifications CLASSIFICATION_COLORS has an entry for
KnownClassifications ==
    { "Champion", "Economic Buyer", "Technical Buyer", "Blocker",
      "Influencer", "End User", "Detractor", "Unknown" }

\* CLASSIFICATION_COLORS[c] || CLASSIFICATION_COLORS['Unknown']
ClassificationColor(c) ==
    CASE c = "Champion"        -> "#2e7d32"
      [] c = "Economic Buyer"  -> "#1565c0"
      [] c = "Technical Buyer" -> "#6a1b9a"
      [] c = "Blocker"         -> "#c62828"
      [] c = "Influencer"      -> "#ef6c00"
      [] c = "End User"        -> "#78909c"
      [] c = "Detractor"       -> "#b71c1c"
      [] OTHER                 -> "#9e9e9e"

\* NODE_TYPE_COLORS[t] || '#9e9e9e'
NodeTypeColor(t) ==
    CASE t = "Account"          -> "#0176d3"
      [] t = "Opportunity"      -> "#ff9800"
      [] t = "External_Contact" -> "#00897b"
      [] OTHER                  -> "#9e9e9e"

\* activeFilters.includes(c)
Includes(filters, c) == \E i \in 1..Len(filters) : filters[i] = c

\* faulty variant of GetNodeColor: the active filters are not looked at
GetNodeColorUnfiltered(n, filters) ==
    IF n.hasMovedCompany THEN "#bdbdbd"
    ELSE IF n.nodeType = "Moved_To_Company" THEN "#e8e8e8"
    ELSE IF n.nodeType = "External_Contact" THEN NodeTypeColor("External_Contact")
    ELSE IF n.nodeType = "Account" /\ n.isHierarchyAccount
    THEN IF n.hierarchyLevel = "parent" THEN "#005FB2" ELSE "#57A3E8"
    ELSE IF n.nodeType # "Contact" THEN NodeTypeColor(n.nodeType)
    ELSE ClassificationColor(n.classification)

\* getNodeColor(node), with this.activeFilters = filters
GetNodeColor(n, filters) ==
    IF n.hasMovedCompany THEN "#bdbdbd"
    ELSE IF n.nodeType = "Moved_To_Company" THEN "#e8e8e8"
    ELSE IF n.nodeType = "External_Contact" THEN NodeTypeColor("External_Contact")
    ELSE IF n.nodeType = "Account" /\ n.isHierarchyAccount
    THEN IF n.hierarchyLevel = "parent" THEN "#005FB2" ELSE "#57A3E8"
    ELSE IF n.nodeType # "Contact" THEN NodeTypeColor(n.nodeType)
    ELSE IF Len(filters) > 0 /\ ~Includes(filters, n.classification)
    THEN "#e0e0e0"
    ELSE ClassificationColor(n.classification)

(***************************************************************************)
(* processGraphData: the render model built from a payload                 *)
(***************************************************************************)
\* a node of the render model: the payload node's fields ({...n}) and the
\* fields the component adds (clusterId by computeClusters, the pin fx/fy)
ModelNode(n) ==
    [ id |-> n.id, nodeType |-> n.nodeType,
      isHierarchyAccount |-> n.isHierarchyAccount,
      hasMovedCompany |-> n.hasMovedCompany,
      previousCompany |-> n.previousCompany,
      previousCompanyId |-> n.previousCompanyId,
      classification |-> n.classification,
      hierarchyLevel |-> n.hierarchyLevel,
      color |-> GetNodeColor(n, activeFilters),
      clusterId |-> -1, pinned |-> FALSE ]

\* n.nodeType === 'Account' && !n.isHierarchyAccount
IsPrimaryAccount(n) == n.nodeType = "Account" /\ ~n.isHierarchyAccount

\* faulty variant of KeepNode: the filter forgets the isHierarchyAccount test
KeepNodeDroppingEveryAccount(n, hier) == n.nodeType # "Account" \/ hier

\* does the filter loop keep payload node n
KeepNode(n, hier) == ~IsPrimaryAccount(n) \/ hier

\* filteredNodes
FilteredNodes(data, hier) == SelectSeq(data.nodes, LAMBDA n : KeepNode(n, hier))

\* this.nodes = filteredNodes.map(...)
BuiltNodes(data, hier) ==
    LET f == FilteredNodes(data, hier)
    IN  [ i \in 1..Len(f) |-> ModelNode(f[i]) ]

\* nodeMap.has(id)
NodeMapHas(ns, id) == \E i \in 1..Len(ns) : ns[i].id = id

\* nodeMap.get(id): the node set last under that key, 0 for undefined
NodeMapGet(ns, id) ==
    IF NodeMapHas(ns, id)
    THEN CHOOSE i \in 1..Len(ns) :
            ns[i].id = id /\ \A j \in 1..Len(ns) : ns[j].id = id => j <= i
    ELSE 0

\* faulty variant of KeepEdge: the filter forgets the edge type
KeepEdgeIgnoringType(e, ns, hier) ==
    NodeMapHas(ns, e.source) /\ NodeMapHas(ns, e.target)

\* faulty variant of KeepEdge: the filter forgets to look the two ends up
KeepEdgeUnresolved(e, ns, hier) ==
    ~(e.edgeType = "account_relationship" /\ ~hier)

\* the predicate of data.edges.filter(...)
KeepEdge(e, ns, hier) ==
    IF e.edgeType = "account_relationship" /\ ~hier THEN FALSE
    ELSE NodeMapHas(ns, e.source) /\ NodeMapHas(ns, e.target)

\* this.edges = data.edges.filter(...).map(...)
BuiltEdges(data, ns, hier) ==
    LET f == SelectSeq(data.edges, LAMBDA e : KeepEdge(e, ns, hier))
    IN  [ i \in 1..Len(f) |->
            [ source |-> NodeMapGet(ns, f[i].source),
              target |-> NodeMapGet(ns, f[i].target),
              edgeType |-> f[i].edgeType,
              interactionCount |-> f[i].interactionCount ] ]

\* 'moved_to_' + movedIdx
MovedToId(i) ==
    << "moved_to_0", "moved_to_1", "moved_to_2", "moved_to_3",
       "moved_to_4", "moved_to_5", "moved_to_6", "moved_to_7" >>[i + 1]

\* faulty variant of HasDestination: the destination name is not looked at
HasDestinationIgnoringName(n) == n.hasMovedCompany

\* node.hasMovedCompany === true && node.previousCompany
HasDestination(n) == n.hasMovedCompany /\ n.previousCompany # ""

\* node.previousCompanyId || ('moved_to_' + movedIdx++)
RealId(n, movedIdx) ==
    IF n.previousCompanyId # "" THEN n.previousCompanyId ELSE MovedToId(movedIdx)

\* movedToNode
MovedToNode(n, movedIdx) ==
    [ id |-> RealId(n, movedIdx), nodeType |-> "Moved_To_Company",
      isHierarchyAccount |-> FALSE, hasMovedCompany |-> FALSE,
      previousCompany |-> "", previousCompanyId |-> "",
      classification |-> "", hierarchyLevel |-> "",
      color |-> "#e8e8e8",
      clusterId |-> -1, pinned |-> FALSE ]

RECURSIVE AddMoved(_, _, _, _, _)
\* for (const node of [...this.nodes]) { ... }: i walks the snapshot 1..n0
AddMoved(ns, es, i, n0, movedIdx) ==
    IF i > n0 THEN [ nodes |-> ns, edges |-> es ]
    ELSE IF HasDestination(ns[i])
         THEN AddMoved(
                Append(ns, MovedToNode(ns[i], movedIdx)),
                Append(es, [ source |-> i, target |-> Len(ns) + 1,
                             edgeType |-> "moved_to", interactionCount |-> 0 ]),
                i + 1, n0,
                IF ns[i].previousCompanyId # "" THEN movedIdx ELSE movedIdx + 1)
         ELSE AddMoved(ns, es, i + 1, n0, movedIdx)

\* this.nodes and this.edges as processGraphData leaves them before
\* computeClusters, for a payload with a nodes list
BuiltModel(data, hier) ==
    LET ns == BuiltNodes(data, hier)
    IN  AddMoved(ns, BuiltEdges(data, ns, hier), 1, Len(ns), 0)

(***************************************************************************)
(* computeClusters: weighted label propagation                             *)
(***************************************************************************)
\* contactNodes = this.nodes.filter(n => n.nodeType === 'Contact')
ContactNodes(ns) == SelectSeq(ns, LAMBDA n : n.nodeType = "Contact")

\* faulty variant of EdgeWeight: the count is used without the default of 1
EdgeWeightWithoutDefault(count) == count

\* const weight = edge.interactionCount || 1
EdgeWeight(count) == IF count = 0 THEN 1 ELSE count

\* adj.get(key).push(item), after if (!adj.has(key)) adj.set(key, [])
AdjPush(adj, key, item) ==
    IF key \in DOMAIN adj
    THEN [ adj EXCEPT ![key] = Append(@, item) ]
    ELSE adj @@ (key :> << item >>)

RECURSIVE AdjAcc(_, _, _, _)
\* the loop over this.edges that fills adj; k is the next edge
AdjAcc(ns, es, k, adj) ==
    IF k > Len(es) THEN adj
    ELSE IF es[k].edgeType # "co_occurrence" THEN AdjAcc(ns, es, k + 1, adj)
    ELSE LET sId == ns[es[k].source].id
             tId == ns[es[k].target].id
             w   == EdgeWeight(es[k].interactionCount)
             a1  == AdjPush(adj, sId, [ id |-> tId, weight |-> w ])
             a2  == AdjPush(a1, tId, [ id |-> sId, weight |-> w ])
         IN  AdjAcc(ns, es, k + 1, a2)

\* adj: node id -> list of {id, weight}, in edge order
Adjacency(ns, es) == AdjAcc(ns, es, 1, [ x \in {} |-> << >> ])

\* contactNodes.forEach((n, i) => labels.set(n.id, i))
InitLabels(ns) ==
    LET cs == ContactNodes(ns)
    IN  [ id \in { cs[i].id : i \in 1..Len(cs) } |->
            (CHOOSE i \in 1..Len(cs) :
                cs[i].id = id /\ \A j \in 1..Len(cs) : cs[j].id = id => j <= i) - 1 ]

RECURSIVE FreqAcc(_, _, _, _)
\* freq: label -> summed weight, as a list of entries in insertion order
FreqAcc(nb, labels, k, freq) ==
    IF k > Len(nb) THEN freq
    ELSE IF nb[k].id \notin DOMAIN labels THEN FreqAcc(nb, labels, k + 1, freq)
    ELSE LET l == labels[nb[k].id]
         IN  IF \E i \in 1..Len(freq) : freq[i].label = l
             THEN LET i == CHOOSE j \in 1..Len(freq) : freq[j].label = l
                  IN  FreqAcc(nb, labels, k + 1,
                              [ freq EXCEPT ![i].w = @ + nb[k].weight ])
             ELSE FreqAcc(nb, labels, k + 1,
                          Append(freq, [ label |-> l, w |-> nb[k].weight ]))

RECURSIVE BestAcc(_, _, _, _)
\* for (const [label, w] of freq) if (w > bestWeight) { ... }
BestAcc(freq, k, bestLabel, bestWeight) ==
    IF k > Len(freq) THEN bestLabel
    ELSE IF freq[k].w > bestWeight
         THEN BestAcc(freq, k + 1, freq[k].label, freq[k].w)
         ELSE BestAcc(freq, k + 1, bestLabel, bestWeight)

\* the label a visit gives the node with this id (lines 332-350)
VisitLabel(id, labels, adj) ==
    IF id \notin DOMAIN adj THEN labels[id]
    ELSE LET freq == FreqAcc(adj[id], labels, 1, << >>)
         IN  IF Len(freq) = 0 THEN labels[id]
             ELSE BestAcc(freq, 1, labels[id], 0)

RECURSIVE PassAccLastOnly(_, _, _, _, _)
\* faulty variant of PassAcc: changed tells whether the node visited last
\* changed its label
PassAccLastOnly(order, k, labels, changed, adj) ==
    IF k > Len(order) THEN [ labels |-> labels, changed |-> changed ]
    ELSE LET id == order[k]
             best == VisitLabel(id, labels, adj)
         IN  IF best # labels[id]
             THEN PassAccLastOnly(order, k + 1, [ labels EXCEPT ![id] = best ], TRUE, adj)
             ELSE PassAccLastOnly(order, k + 1, labels, FALSE, adj)

RECURSIVE PassAcc(_, _, _, _, _)
\* for (const node of shuffled) { ... }: order lists the ids visited
PassAcc(order, k, labels, changed, adj) ==
    IF k > Len(order) THEN [ labels |-> labels, changed |-> changed ]
    ELSE LET id == order[k]
             best == VisitLabel(id, labels, adj)
         IN  IF best # labels[id]
             THEN PassAcc(order, k + 1, [ labels EXCEPT ![id] = best ], TRUE, adj)
             ELSE PassAcc(order, k + 1, labels, changed, adj)

\* faulty variant of RunPass: the pass always reports a change
RunPassAlwaysChanged(order, labels, adj) ==
    [ PassAcc(order, 1, labels, FALSE, adj) EXCEPT !.changed = TRUE ]

\* one pass of the propagation loop in the given visiting order
RunPass(order, labels, adj) == PassAcc(order, 1, labels, FALSE, adj)

RECURSIVE Perms(_)
\* the orders in which the elements of a set can be listed
Perms(S) ==
    IF S = {} THEN { << >> }
    ELSE UNION { { Append(p, x) : p \in Perms(S \ { x }) } : x \in S }

\* [...contactNodes].sort(() => Math.random() - 0.5): any order of the
\* contact nodes, given as the list of their ids
VisitOrders(ns) ==
    LET cs == ContactNodes(ns)
    IN  { [ k \in 1..Len(cs) |-> cs[f[k]].id ] : f \in Perms(1..Len(cs)) }

RECURSIVE Propagate(_, _, _, _)
\* the labellings the loop may end with when pass number iter starts in one
\* of the labellings of the set running
Propagate(running, iter, orders, adj) ==
    IF running = {} \/ iter >= MaxPasses THEN running
    ELSE LET results == { RunPass(o, l, adj) : o \in orders, l \in running }
             stopped == { r.labels : r \in { x \in results : ~x.changed } }
             goOn    == { r.labels : r \in { x \in results : x.changed } }
         IN  stopped \cup Propagate(goOn, iter + 1, orders, adj)

\* every labelling computeClusters' loop may end with
ClusterOutcomes(ns, es) ==
    Propagate({ InitLabels(ns) }, 0, VisitOrders(ns), Adjacency(ns, es))

RECURSIVE Dedup(_, _, _)
\* [...new Set(values)]: the values in first-seen order
Dedup(vals, k, acc) ==
    IF k > Len(vals) THEN acc
    ELSE IF \E i \in 1..Len(acc) : acc[i] = vals[k] THEN Dedup(vals, k + 1, acc)
    ELSE Dedup(vals, k + 1, Append(acc, vals[k]))

\* uniqueLabels = [...new Set(labels.values())]
UniqueLabels(ns, labels) ==
    LET cs   == ContactNodes(ns)
        keys == Dedup([ i \in 1..Len(cs) |-> cs[i].id ], 1, << >>)
    IN  Dedup([ i \in 1..Len(keys) |-> labels[keys[i]] ], 1, << >>)

\* faulty variant of LabelMapGet: the label is used as the cluster id
LabelMapGetUnmapped(uniq, label) == label

\* labelMap.get(label)
LabelMapGet(uniq, label) == (CHOOSE i \in 1..Len(uniq) : uniq[i] = label) - 1

\* node.clusterId = ... for every node of this.nodes
AssignClusters(ns, labels) ==
    LET uniq == UniqueLabels(ns, labels)
    IN  [ i \in 1..Len(ns) |->
            [ ns[i] EXCEPT !.clusterId =
                IF ns[i].nodeType = "Contact"
                THEN LabelMapGet(uniq, labels[ns[i].id])
                ELSE -1 ] ]

\* the cluster ids in use: the keys of this.clusters
ClusterIds(ns) == { ns[i].clusterId : i \in 1..Len(ns) } \ { -1 }

\* this.clusters.get(c).nodes, as node positions
ClusterMembers(ns, c) == { i \in 1..Len(ns) : ns[i].clusterId = c }

(***************************************************************************)
(* State                                                                   *)
(***************************************************************************)
VARIABLES
    hidePassive,            \* this.hidePassive
    showExternalContacts,   \* this.showExternalContacts
    showHierarchy,          \* this.showHierarchy
    minInteractions,        \* this.minInteractions
    storage,                \* the sessionStorage item of this record
    config,                 \* this.config
    configState,            \* getGraphConfig(): "pending", "done" or "failed"
    d3,                     \* loadScript(this, D3): "loading", "ready", "failed"
    inflight,               \* the load / refresh calls awaiting their response
    nextSeq,                \* issue number of the next load / refresh call
    isLoading,              \* this.isLoading
    graphData,              \* this.graphData: "null", "empty" or "data"
    nodes,                  \* this.nodes
    edges,                  \* this.edges
    modelSeq,               \* issue number of the call whose payload built
                            \* this.nodes / this.edges (0: none yet)
    simulation,             \* this.simulation: "none", "running", "stopped"
    thresholdTimeout,       \* is the timer this._thresholdTimeout pending
    disconnected,           \* has disconnectedCallback run
    toasts,                 \* variants of the toasts the last step dispatched
    payload,                \* SpecProcess: the payload under test
    phase,                  \* SpecProcess / SpecCluster: position of the run
    labels,                 \* SpecCluster: computeClusters' labels map
    iter,                   \* SpecCluster: computeClusters' pass counter
    transform,              \* this.transform: x, y and k, doubles
    width,                  \* this.width, in pixels
    height,                 \* this.height, in pixels
    isPanning,              \* this.isPanning
    lastEvent,              \* the canvas or toolbar event handled last; a
                            \* move that drags a node is "drag", the release
                            \* that ends such a drag is "dragend"
    lastHit,                \* place in this.nodes of the node findNodeAt
                            \* found for that press or click (0: none)
    zoomPivot,              \* the pivot of that event, two doubles: pointer
                            \* position for the wheel, viewport centre for
                            \* the buttons
    viewEvents,             \* number of canvas and toolbar events handled
    riskNodeIds,            \* this.riskNodeIds: subject id -> severity
    failedCall,             \* the external call that failed in the last step:
                            \* "d3", "request" (a load or a refresh),
                            \* "override", or "" when none did
    failedWith,             \* the error value that call was rejected with
    uncaught,               \* did the last step end in an uncaught error
    errorMessage,           \* the error detail in the message of the error
                            \* toast of the last step ("" when there is none)
    selectedNode,           \* id of this.selectedNode ("" for null)
    overrides,              \* the overrideClassification calls in flight
    draggedNode,            \* this.draggedNode: the model it belongs to and
                            \* its place in that model's node list
    hoveredNode,            \* this.hoveredNode, in the same form
    alphaTarget,            \* this.simulation.alphaTarget(), in tenths
    input,                  \* SpecHull / SpecHit: the arguments of the call
    output                  \* SpecHull / SpecHit: what the call returned

toggleVars  == << hidePassive, showExternalContacts, showHierarchy,
                  minInteractions, storage >>
startupVars == << config, configState, d3 >>
requestVars == << inflight, nextSeq, isLoading >>
modelVars   == << graphData, nodes, edges, modelSeq, simulation >>
processVars == << payload, phase >>
clusterVars == << labels, iter >>
viewVars    == << transform, width, height, isPanning, lastEvent, lastHit,
                  zoomPivot, viewEvents >>
overlayVars == << riskNodeIds >>
failureVars == << failedCall, failedWith, uncaught, errorMessage >>
selectionVars == << selectedNode, overrides >>
dragVars    == << draggedNode, hoveredNode, alphaTarget >>
filterVars  == << activeFilters >>
callVars    == << input, output >>
vars == << toggleVars, startupVars, requestVars, modelVars, processVars,
           clusterVars, thresholdTimeout, disconnected, toasts, viewVars,
           overlayVars, failureVars, selectionVars, dragVars, filterVars,
           callVars >>

\* this.draggedNode = null
NoDrag == [ model |-> 0, index |-> 0 ]

\* this.hoveredNode = null
NoHover == [ model |-> 0, index |-> 0 ]

\* the value of failedWith when no call has failed
NoError ==
    [ type |-> "none", text |-> "", hasBody |-> FALSE, bodyMessage |-> "",
      message |-> "", hasMessage |-> FALSE ]

\* no external call has failed and nothing is selected: the fields as
\* declared
QuietAtRest ==
    /\ failedCall = ""
    /\ failedWith = NoError
    /\ uncaught = FALSE
    /\ errorMessage = ""
    /\ selectedNode = ""
    /\ overrides = << >>
    /\ draggedNode = NoDrag
    /\ hoveredNode = NoHover
    /\ alphaTarget = 0
    /\ activeFilters = << >>
    /\ input = << >>
    /\ output = << >>

\* the step is not the failure of an external call
NoFailure ==
    /\ failedCall' = ""
    /\ failedWith' = NoError
    /\ uncaught' = FALSE
    /\ errorMessage' = ""

(***************************************************************************)
(* Error values and their messages                                         *)
(***************************************************************************)
\* the value a rejected call carries: null or undefined, a string, or an
\* object that may have a body with a message and may have a message; ""
\* stands for a field that is absent or empty, and hasMessage tells whether
\* the object has a message property at all
ErrorValue(type, text, hasBody, bodyMessage, message) ==
    [ type |-> type, text |-> text, hasBody |-> hasBody,
      bodyMessage |-> bodyMessage, message |-> message,
      hasMessage |-> message # "" ]

\* the object e with the empty string as its message ({ message: '' },
\* new Error())
WithEmptyMessage(e) == [ e EXCEPT !.message = "", !.hasMessage = TRUE ]

NullError == ErrorValue("null", "", FALSE, "", "")

\* the error values the failing calls are tried with
\* the error value the failing calls of the life cycle carry
ServerError == ErrorValue("object", "", TRUE, "Server error", "")

ErrorValues ==
    { NullError }
      \cup { ErrorValue("string", t, FALSE, "", "") : t \in { "", "Simple error" } }
      \cup { ErrorValue("object", "", FALSE, "", m) : m \in { "", "Standard error" } }
      \cup { WithEmptyMessage(ErrorValue("object", "", FALSE, "", "")) }
      \cup { ErrorValue("object", "", TRUE, b, m) :
                b \in { "", "Server error" }, m \in { "", "Standard error" } }

\* faulty variant of ExtractErrorMessage: message is looked at before
\* body.message
ExtractErrorMessageBodyLast(error) ==
    IF error.type = "string" THEN error.text
    ELSE IF error.type = "object" /\ error.message # "" THEN error.message
    ELSE IF error.type = "object" /\ error.hasBody /\ error.bodyMessage # ""
    THEN error.bodyMessage
    ELSE "Unknown error"

\* extractErrorMessage(error)
ExtractErrorMessage(error) ==
    IF error.type = "string" THEN error.text
    ELSE IF error.type = "object" /\ error.hasBody /\ error.bodyMessage # ""
    THEN error.bodyMessage
    ELSE IF error.type = "object" /\ error.message # "" THEN error.message
    ELSE "Unknown error"

\* does reading error.message throw (error is null or undefined)
MessageReadThrows(error) == error.type = "null"

\* the text 'Failed to ...: ' + error.message
MessageText(error) ==
    IF error.type = "object" /\ error.hasMessage THEN error.message
    ELSE "undefined"

(***************************************************************************)
(* Numbers of the view transform.  The code computes in IEEE 754 doubles,  *)
(* and so does the model: a double other than 0 is neg, mant and exp, and  *)
(* stands for mant * 2^exp (negated if neg) with 2^52 <= mant < 2^53; each *)
(* operation yields the double nearest to the exact result, ties going to  *)
(* the even mantissa.  The values of the view stay far from overflow and   *)
(* underflow, so infinities, NaN and subnormal numbers do not occur; 0 and  *)
(* -0 are one value, as they are for the arithmetic and the comparisons of *)
(* the handlers (none divides by an offset).  A mantissa, like every       *)
(* natural number here, is held as its digits to the base 16384 = 2^14,    *)
(* the lowest first and the highest not 0.                                 *)
(***************************************************************************)
RECURSIVE Trim(_)
\* n without its leading zeros
Trim(n) ==
    IF n = << >> \/ n[Len(n)] # 0 THEN n ELSE Trim(SubSeq(n, 1, Len(n) - 1))

RECURSIVE Carried(_, _)
\* the digits of the number whose digit positions hold the values cols, of
\* either sign, plus carry in the lowest position; the digit after the
\* highest of cols is the carry that is left, below 0 for a number below 0
Carried(cols, carry) ==
    IF cols = << >>
    THEN IF carry = 0 THEN << >> ELSE << carry >>
    ELSE << (cols[1] + carry) % 16384 >>
           \o Carried(Tail(cols), (cols[1] + carry) \div 16384)

\* digit i of n, 0 beyond its highest
DigitAt(n, i) == IF i <= Len(n) THEN n[i] ELSE 0

\* a + b
AddN(a, b) ==
    Carried([ i \in 1..(IF Len(a) > Len(b) THEN Len(a) ELSE Len(b)) |->
                 DigitAt(a, i) + DigitAt(b, i) ], 0)

RECURSIVE Borrowed(_, _)
\* as Carried, for position values from -16383 to 16383 and a borrow of 0
\* or -1, the number not below 0
Borrowed(cols, borrow) ==
    IF cols = << >> THEN << >>
    ELSE << (cols[1] + borrow + 16384) % 16384 >>
           \o Borrowed(Tail(cols), IF cols[1] + borrow < 0 THEN -1 ELSE 0)

\* a - b, for a >= b
SubN(a, b) == Trim(Borrowed([ i \in 1..Len(a) |-> a[i] - DigitAt(b, i) ], 0))

\* a > b
GreaterN(a, b) ==
    \/ Len(a) > Len(b)
    \/ /\ Len(a) = Len(b)
       /\ \E i \in 1..Len(a) :
             /\ a[i] > b[i]
             /\ \A j \in (i + 1)..Len(a) : a[j] = b[j]

\* n * m, for a digit m > 0
TimesDigit(n, m) == Carried([ i \in 1..Len(n) |-> n[i] * m ], 0)

\* n * 16384^c
ShiftDigits(n, c) == IF n = << >> THEN n ELSE [ i \in 1..c |-> 0 ] \o n

\* a * b, for two mantissas (four digits each)
TimesN(a, b) ==
    Carried(<< a[1] * b[1],
               a[1] * b[2] + a[2] * b[1],
               a[1] * b[3] + a[2] * b[2] + a[3] * b[1],
               a[1] * b[4] + a[2] * b[3] + a[3] * b[2] + a[4] * b[1],
               a[2] * b[4] + a[3] * b[3] + a[4] * b[2],
               a[3] * b[4] + a[4] * b[3],
               a[4] * b[4] >>, 0)

\* 2^0 ... 2^14
PowersOfTwo ==
    << 1, 2, 4, 8, 16, 32, 64, 128, 256, 512, 1024, 2048, 4096, 8192, 16384 >>

\* the number of binary digits of the digit x
BitsOf(x) ==
    CHOOSE i \in 0..14 : x < PowersOfTwo[i + 1] /\ (i = 0 \/ x >= PowersOfTwo[i])

\* the number of binary digits of n
BitLength(n) == IF n = << >> THEN 0 ELSE 14 * (Len(n) - 1) + BitsOf(n[Len(n)])

\* n * 2^s
ShiftLeft(n, s) == ShiftDigits(TimesDigit(n, PowersOfTwo[(s % 14) + 1]), s \div 14)

\* n \div 2^s
ShiftRight(n, s) ==
    Trim([ i \in 1..(Len(n) - s \div 14) |->
              n[i + s \div 14] \div PowersOfTwo[(s % 14) + 1]
                + (DigitAt(n, i + s \div 14 + 1) % PowersOfTwo[(s % 14) + 1])
                     * PowersOfTwo[15 - (s % 14)] ])

\* binary digit i of n, the lowest being digit 0
BitAt(n, i) == (DigitAt(n, i \div 14 + 1) \div PowersOfTwo[(i % 14) + 1]) % 2

\* n % 2^s # 0
HasLowBits(n, s) ==
    \/ \E i \in 1..Len(n) : i <= s \div 14 /\ n[i] # 0
    \/ DigitAt(n, s \div 14 + 1) % PowersOfTwo[(s % 14) + 1] # 0

\* the number 0
Zero == [ neg |-> FALSE, mant |-> << >>, exp |-> 0 ]

\* the double mant * 2^exp
Double(mant, exp) == [ neg |-> FALSE, mant |-> mant, exp |-> exp ]

\* the double of mantissa q, or of q + 1 if up, times 2^e, for q of 53
\* binary digits
RoundedUp(neg, q, up, e) ==
    IF ~up THEN [ neg |-> neg, mant |-> q, exp |-> e ]
    ELSE IF q = << 16383, 16383, 16383, 2047 >>
    THEN [ neg |-> neg, mant |-> << 0, 0, 0, 1024 >>, exp |-> e + 1 ]
    ELSE [ neg |-> neg, mant |-> AddN(q, << 1 >>), exp |-> e ]

\* the double nearest to n * 2^e, for n of len binary digits: the first 53
\* binary digits of n, raised by one if the rest is above one half, or is one
\* half and the 53rd digit is odd; inexact says that n stands for a number
\* slightly above n
RoundedAt(neg, n, len, e, inexact) ==
    IF len <= 53
    THEN [ neg |-> neg, mant |-> ShiftLeft(n, 53 - len), exp |-> e - (53 - len) ]
    ELSE RoundedUp(neg, ShiftRight(n, len - 53),
                   /\ BitAt(n, len - 54) = 1
                   /\ inexact \/ HasLowBits(n, len - 54) \/ BitAt(n, len - 53) = 1,
                   e + len - 53)

\* the double nearest to n * 2^e (ties to the even mantissa), negated if neg
Rounded(neg, n, e, inexact) ==
    CHOOSE r \in { IF m = << >> THEN Zero
                   ELSE RoundedAt(neg, m, BitLength(m), e, inexact) :
                      m \in { n } } : TRUE

RECURSIVE Digits(_)
\* the natural n >= 0 as its digits
Digits(n) == IF n = 0 THEN << >> ELSE << n % 16384 >> \o Digits(n \div 16384)

\* the integer n as a double
Num(n) == Rounded(n < 0, Digits(IF n < 0 THEN 0 - n ELSE n), 0, FALSE)

\* the number 1: 2^52 * 2^-52
One == Double(<< 0, 0, 0, 1024 >>, -52)

\* -a
Negated(a) == IF a = Zero THEN a ELSE [ a EXCEPT !.neg = ~a.neg ]

\* the double nearest to a * b
Product(a, b) ==
    IF a = Zero \/ b = Zero THEN Zero
    ELSE Rounded(a.neg # b.neg, TimesN(a.mant, b.mant), a.exp + b.exp, FALSE)

\* a * b in doubles
Times(a, b) == CHOOSE r \in { Product(x, y) : x \in { a }, y \in { b } } : TRUE

\* the double nearest to x * 2^e + y * 2^e, x and y taking the signs of a
\* and b
SumAt(a, b, x, y, e) ==
    IF a.neg = b.neg THEN Rounded(a.neg, AddN(x, y), e, FALSE)
    ELSE IF x = y THEN Zero
    ELSE IF GreaterN(x, y) THEN Rounded(a.neg, SubN(x, y), e, FALSE)
    ELSE Rounded(b.neg, SubN(y, x), e, FALSE)

\* the double nearest to a + b: the mantissas are brought to the smaller
\* exponent and added exactly
Sum(a, b) ==
    IF a = Zero THEN b
    ELSE IF b = Zero THEN a
    ELSE IF a.exp < b.exp
    THEN CHOOSE r \in { SumAt(a, b, a.mant, y, a.exp) :
                           y \in { ShiftLeft(b.mant, b.exp - a.exp) } } : TRUE
    ELSE CHOOSE r \in { SumAt(a, b, x, b.mant, b.exp) :
                           x \in { ShiftLeft(a.mant, a.exp - b.exp) } } : TRUE

\* a + b in doubles
Plus(a, b) == CHOOSE r \in { Sum(x, y) : x \in { a }, y \in { b } } : TRUE

\* a - b in doubles
Minus(a, b) == CHOOSE r \in { Sum(x, Negated(y)) : x \in { a }, y \in { b } } : TRUE

\* the next digit q of the quotient by d, the largest with q * d <= r, and
\* the remainder r - q * d, for r < d * 16384 and a divisor d of four digits
\* whose highest is at least 8192: q is est, the quotient of the leading
\* digits, or one or two below it
DigitFrom(r, d, est) ==
    CHOOSE s \in { IF rest[Len(rest)] >= 0 THEN << est, Trim(rest) >>
                   ELSE CHOOSE t \in
                           { IF more[Len(more)] >= 0 THEN << est - 1, Trim(more) >>
                             ELSE << est - 2,
                                     Trim(Carried([ i \in 1..Len(more) |->
                                                      more[i] + DigitAt(d, i) ], 0)) >> :
                                more \in { Carried([ i \in 1..Len(rest) |->
                                                       rest[i] + DigitAt(d, i) ], 0) } } :
                           TRUE :
                     rest \in { Carried([ i \in 1..5 |->
                                            DigitAt(r, i) - est * DigitAt(d, i) ], 0) } } :
        TRUE

\* the same, est being at most the largest digit
NextDigit(r, d) ==
    IF Len(r) < 4 THEN << 0, r >>
    ELSE CHOOSE s \in { DigitFrom(r, d, IF est > 16383 THEN 16383 ELSE est) :
                           est \in { (DigitAt(r, 5) * 16384 + r[4]) \div d[4] } } :
            TRUE

RECURSIVE LongDivision(_, _, _, _)
\* the quotient digits q followed by count further digits of r / d, the
\* highest first, and the remainder that is left
LongDivision(q, r, d, count) ==
    IF count = 0 THEN << q, r >>
    ELSE CHOOSE result \in
            { LongDivision(q \o << s[1] >>, s[2], d, count - 1) :
                 s \in { NextDigit(ShiftDigits(r, 1), d) } } : TRUE

\* the digits of q, the highest first, as a natural
LowestFirst(q) == Trim([ i \in 1..Len(q) |-> q[Len(q) + 1 - i] ])

\* the double nearest to n / d * 2^e, negated if neg, for n and d of 56
\* binary digits: the quotient to 56 binary digits behind the point by long
\* division, then rounded
Quotient(neg, n, d, e) ==
    CHOOSE r \in { Rounded(neg, LowestFirst(qr[1]), e - 56, qr[2] # << >>) :
                     qr \in { IF GreaterN(d, n) THEN LongDivision(<< 0 >>, n, d, 4)
                              ELSE LongDivision(<< 1 >>, SubN(n, d), d, 4) } } : TRUE

\* a / b in doubles, b not 0; the mantissas are taken times 8, so that the
\* highest digit of the divisor is at least 8192
Over(a, b) ==
    CHOOSE r \in { IF x = Zero THEN Zero
                   ELSE CHOOSE q \in { Quotient(x.neg # y.neg, n, d, x.exp - y.exp) :
                                         n \in { TimesDigit(x.mant, 8) },
                                         d \in { TimesDigit(y.mant, 8) } } : TRUE :
                      x \in { a }, y \in { b } } : TRUE

\* a > b
Exceeds(a, b) ==
    IF a = Zero THEN b # Zero /\ b.neg
    ELSE IF b = Zero THEN ~a.neg
    ELSE IF a.neg # b.neg THEN b.neg
    ELSE IF a.neg
    THEN b.exp > a.exp \/ (a.exp = b.exp /\ GreaterN(b.mant, a.mant))
    ELSE a.exp > b.exp \/ (a.exp = b.exp /\ GreaterN(a.mant, b.mant))

\* transform = { x: 0, y: 0, k: 1 }
InitialTransform == [ x |-> Zero, y |-> Zero, k |-> One ]

\* container.clientWidth || 800 and container.clientHeight || 600
DefaultWidth  == 800
DefaultHeight == 600

\* this.refs.canvasContainer is undefined
NoContainer == << >>

\* clientWidth and clientHeight of a container that has no layout yet
UnmeasuredContainer == << 0, 0 >>

\* this.width and this.height as initCanvas sets them
CanvasWidth(container)  == IF container[1] # 0 THEN container[1] ELSE DefaultWidth
CanvasHeight(container) == IF container[2] # 0 THEN container[2] ELSE DefaultHeight

\* the view before any canvas event: the fields as declared, and the size
\* initCanvas took from an unmeasured container once the library is loaded
ViewAtRest ==
    /\ transform = InitialTransform
    /\ width = IF d3 = "ready" THEN CanvasWidth(UnmeasuredContainer) ELSE 0
    /\ height = IF d3 = "ready" THEN CanvasHeight(UnmeasuredContainer) ELSE 0
    /\ isPanning = FALSE
    /\ lastEvent = "none"
    /\ lastHit = 0
    /\ zoomPivot = << Zero, Zero >>
    /\ viewEvents = 0

(***************************************************************************)
(* Inputs of the life cycle                                                *)
(***************************************************************************)
\* what getGraphData / refreshGraphData may resolve with (Spec)
Payloads ==
    { NullPayload, NoNodesPayload,
      Payload("data",
              SeqOfSet(NodePool, {1, 3, 7}), SeqOfSet(EdgePool, {1, 3})),
      Payload("data",
              SeqOfSet(NodePool, {1, 2, 7}), SeqOfSet(EdgePool, {2, 4})) }

\* the values the threshold slider is moved to
ThresholdValues == { 5 }

\* what getGraphConfig may resolve with; 0 stands for an absent field
Configs ==
    { [ minInteractions |-> 0, activityThresholdDays |-> 0 ],
      [ minInteractions |-> 5, activityThresholdDays |-> 30 ] }

\* config = {}
EmptyConfig == [ minInteractions |-> 0, activityThresholdDays |-> 0 ]

\* sessionStorage.getItem(key) === null
NoSavedState ==
    [ present |-> FALSE, hidePassive |-> FALSE, showExternalContacts |-> FALSE,
      showHierarchy |-> FALSE, minInteractions |-> 0 ]

\* the items sessionStorage may hold for this record at connect
SavedStates ==
    { NoSavedState,
      [ present |-> TRUE, hidePassive |-> FALSE, showExternalContacts |-> TRUE,
        showHierarchy |-> TRUE, minInteractions |-> 5 ] }

\* Spec starts from the component's defaults: nothing saved, and the public
\* properties showAllContacts = false, defaultMinInteractions = 3
InitialStorage == { NoSavedState }
ShowAllContactsValues == { FALSE }
DefaultMinInteractionsValues == { 3 }

(***************************************************************************)
(* Life cycle: helpers                                                     *)
(***************************************************************************)
\* _saveToggleState
SavedToggleState(hp, ext, hier, mi) ==
    [ present |-> TRUE, hidePassive |-> hp, showExternalContacts |-> ext,
      showHierarchy |-> hier, minInteractions |-> mi ]

\* the built-in activity threshold, in days
DefaultThresholdDays == 90

\* faulty variant of ThresholdDays: the default of 90 days is forgotten
ThresholdDaysWithoutDefault(cfg) == cfg.activityThresholdDays

\* this.config.activityThresholdDays || 90
ThresholdDays(cfg) ==
    IF cfg.activityThresholdDays = 0 THEN DefaultThresholdDays ELSE cfg.activityThresholdDays

\* the arguments of getGraphData / refreshGraphData, with the call's issue
\* number
Request(kind, hp, mi, ext, hier) ==
    [ seq |-> nextSeq, kind |-> kind, hidePassive |-> hp, minInteractions |-> mi,
      thresholdDays |-> ThresholdDays(config),
      showExternalContacts |-> ext, showHierarchy |-> hier ]

\* loadGraphData / handleRefresh up to the await: isLoading = true and the call
IssueRequest(kind, hp, mi, ext, hier) ==
    /\ nextSeq <= MaxRequests
    /\ inflight' = inflight \cup { Request(kind, hp, mi, ext, hier) }
    /\ nextSeq' = nextSeq + 1
    /\ isLoading' = TRUE

\* startSimulation's anchor: the first primary Account node is pinned
PinAnchor(ns, hier) ==
    IF hier /\ \E i \in 1..Len(ns) : IsPrimaryAccount(ns[i])
    THEN LET a == CHOOSE i \in 1..Len(ns) :
                    IsPrimaryAccount(ns[i])
                    /\ \A j \in 1..Len(ns) : IsPrimaryAccount(ns[j]) => i <= j
         IN  [ ns EXCEPT ![a].pinned = TRUE ]
    ELSE ns

\* startSimulation: nothing happens without window.d3
StartSimulationNodes(ns, hier, lib) == IF lib = "ready" THEN PinAnchor(ns, hier) ELSE ns

\* this.simulation after startSimulation
StartSimulationState(sim, lib) == IF lib = "ready" THEN "running" ELSE sim

\* alphaTarget of this.simulation after startSimulation: a new simulation
\* starts with target 0
StartSimulationAlphaTarget(target, lib) == IF lib = "ready" THEN 0 ELSE target

\* new Map(): the risk index without entries
NoRisk == [ id \in {} |-> "" ]

\* faulty variant of ReplacesSeverity: the last alert of a subject wins
ReplacesSeverityAlways(existing, severity) == TRUE

\* !existing || alert.severity === 'high'
ReplacesSeverity(existing, severity) == existing = "" \/ severity = "high"

RECURSIVE RiskAcc(_, _, _)
\* for (const alert of this.riskAlerts) { ... }: k is the next alert
RiskAcc(alerts, k, idx) ==
    IF k > Len(alerts) THEN idx
    ELSE LET id == alerts[k].contactId
             existing == IF id \in DOMAIN idx THEN idx[id] ELSE ""
         IN  IF id # "" /\ ReplacesSeverity(existing, alerts[k].severity)
             THEN RiskAcc(alerts, k + 1,
                          IF id \in DOMAIN idx
                          THEN [ idx EXCEPT ![id] = alerts[k].severity ]
                          ELSE idx @@ (id :> alerts[k].severity))
             ELSE RiskAcc(alerts, k + 1, idx)

\* this.riskNodeIds as processGraphData builds it from the alerts
RiskIndex(alerts) == RiskAcc(alerts, 1, NoRisk)

\* faulty variant of ProcessToasts: the truncation warning is shown when the
\* payload names a contact total
ProcessToastsByTotal(data) ==
    IF data.kind # "data" THEN << >>
    ELSE (IF Len(data.warnings) > 0 THEN << "info" >> ELSE << >>)
            \o (IF data.totalContactCount > 0 THEN << "warning" >> ELSE << >>)

\* the toasts processGraphData shows: the warnings of the payload as an info
\* toast, then the truncation warning
ProcessToasts(data) ==
    IF data.kind # "data" THEN << >>
    ELSE (IF Len(data.warnings) > 0 THEN << "info" >> ELSE << >>)
            \o (IF data.isTruncated THEN << "warning" >> ELSE << >>)

\* processGraphData(data), for the response to call number seq
ProcessGraphData(data, seq) ==
    IF data.kind # "data"
    THEN /\ graphData' = "empty"
         /\ UNCHANGED << nodes, edges, modelSeq, simulation, riskNodeIds,
                         alphaTarget >>
    ELSE LET built == BuiltModel(data, showHierarchy)
         IN  /\ graphData' = "data"
             /\ riskNodeIds' = RiskIndex(data.riskAlerts)
             /\ \E l \in ClusterOutcomes(built.nodes, built.edges) :
                    nodes' = StartSimulationNodes(
                                AssignClusters(built.nodes, l), showHierarchy, d3)
             /\ edges' = built.edges
             /\ modelSeq' = seq
             /\ simulation' = StartSimulationState(simulation, d3)
             /\ alphaTarget' = StartSimulationAlphaTarget(alphaTarget, d3)

(***************************************************************************)
(* Life cycle: actions                                                     *)
(***************************************************************************)
\* connectedCallback has restored or defaulted the toggle state and called
\* loadConfig; renderedCallback has called loadScript; saved is the set of
\* items sessionStorage may hold
ConnectedCallback(saved) ==
    /\ storage \in saved
    /\ \E showAllContacts \in ShowAllContactsValues,
          defaultMinInteractions \in DefaultMinInteractionsValues :
         IF storage.present
         THEN /\ hidePassive = storage.hidePassive
              /\ showExternalContacts = storage.showExternalContacts
              /\ showHierarchy = storage.showHierarchy
              /\ minInteractions = storage.minInteractions
         ELSE /\ hidePassive = ~showAllContacts
              /\ showExternalContacts = FALSE
              /\ showHierarchy = FALSE
              /\ minInteractions = defaultMinInteractions
    /\ config = EmptyConfig
    /\ configState = "pending"
    /\ d3 = "loading"
    /\ inflight = {}
    /\ nextSeq = 1
    /\ isLoading = TRUE
    /\ graphData = "null"
    /\ nodes = << >>
    /\ edges = << >>
    /\ modelSeq = 0
    /\ simulation = "none"
    /\ thresholdTimeout = FALSE
    /\ disconnected = FALSE
    /\ toasts = << >>
    /\ payload = NullPayload
    /\ phase = "life"
    /\ labels = << >>
    /\ iter = 0
    /\ ViewAtRest
    /\ riskNodeIds = NoRisk
    /\ QuietAtRest

Init == ConnectedCallback(InitialStorage)

\* loadConfig: the await resolves
ConfigLoaded ==
    /\ configState = "pending"
    /\ \E cfg \in Configs :
         /\ config' = cfg
         /\ minInteractions' =
              IF cfg.minInteractions # 0 THEN cfg.minInteractions ELSE minInteractions
    /\ configState' = "done"
    /\ toasts' = << >>
    /\ NoFailure
    /\ UNCHANGED << viewVars, dragVars, filterVars, callVars, selectionVars, overlayVars, hidePassive, showExternalContacts, showHierarchy, storage, d3,
                    requestVars, modelVars, processVars, clusterVars,
                    thresholdTimeout, disconnected >>

\* loadConfig: the await rejects (console.warn only)
ConfigFailed ==
    /\ configState = "pending"
    /\ configState' = "failed"
    /\ toasts' = << >>
    /\ NoFailure
    /\ UNCHANGED << viewVars, dragVars, filterVars, callVars, selectionVars, overlayVars, toggleVars, config, d3, requestVars, modelVars, processVars,
                    clusterVars, thresholdTimeout, disconnected >>

\* renderedCallback: loadScript resolves; initCanvas with this container, then
\* loadGraphData
D3LoadedIn(container) ==
    /\ d3 = "loading"
    /\ d3' = "ready"
    /\ IF container = NoContainer
       THEN UNCHANGED << width, height >>
       ELSE /\ width' = CanvasWidth(container)
            /\ height' = CanvasHeight(container)
    /\ IssueRequest("load", hidePassive, minInteractions, showExternalContacts,
                    showHierarchy)
    /\ toasts' = << >>
    /\ NoFailure
    /\ UNCHANGED << transform, isPanning, lastEvent, lastHit, zoomPivot,
                    viewEvents, dragVars, filterVars, callVars, selectionVars, overlayVars, toggleVars, config, configState, modelVars, processVars,
                    clusterVars, thresholdTimeout, disconnected >>

\* renderedCallback: loadScript resolves before the container has a layout
D3Loaded == D3LoadedIn(UnmeasuredContainer)

\* renderedCallback: loadScript rejects
D3Failed(error) ==
    /\ d3 = "loading"
    /\ d3' = "failed"
    /\ failedCall' = "d3"
    /\ failedWith' = error
    /\ IF MessageReadThrows(error)
       THEN /\ toasts' = << >>
            /\ errorMessage' = ""
            /\ uncaught' = TRUE
       ELSE /\ toasts' = << "error" >>
            /\ errorMessage' = MessageText(error)
            /\ uncaught' = FALSE
    /\ UNCHANGED << viewVars, dragVars, filterVars, callVars, selectionVars, overlayVars, toggleVars, config,
                    configState, requestVars, modelVars, processVars,
                    clusterVars, thresholdTimeout, disconnected >>

\* toggleHidePassive
ToggleHidePassive ==
    /\ ~disconnected
    /\ hidePassive' = ~hidePassive
    /\ storage' = SavedToggleState(~hidePassive, showExternalContacts,
                                   showHierarchy, minInteractions)
    /\ IssueRequest("load", ~hidePassive, minInteractions, showExternalContacts,
                    showHierarchy)
    /\ toasts' = << >>
    /\ NoFailure
    /\ UNCHANGED << viewVars, dragVars, filterVars, callVars, selectionVars, overlayVars, showExternalContacts, showHierarchy, minInteractions,
                    startupVars, modelVars, processVars, clusterVars,
                    thresholdTimeout, disconnected >>

\* toggleExternalContacts
ToggleExternalContacts ==
    /\ ~disconnected
    /\ showExternalContacts' = ~showExternalContacts
    /\ storage' = SavedToggleState(hidePassive, ~showExternalContacts,
                                   showHierarchy, minInteractions)
    /\ IssueRequest("load", hidePassive, minInteractions, ~showExternalContacts,
                    showHierarchy)
    /\ toasts' = << >>
    /\ NoFailure
    /\ UNCHANGED << viewVars, dragVars, filterVars, callVars, selectionVars, overlayVars, hidePassive, showHierarchy, minInteractions,
                    startupVars, modelVars, processVars, clusterVars,
                    thresholdTimeout, disconnected >>

\* toggleHierarchy
ToggleHierarchy ==
    /\ ~disconnected
    /\ showHierarchy' = ~showHierarchy
    /\ storage' = SavedToggleState(hidePassive, showExternalContacts,
                                   ~showHierarchy, minInteractions)
    /\ IssueRequest("load", hidePassive, minInteractions, showExternalContacts,
                    ~showHierarchy)
    /\ toasts' = << >>
    /\ NoFailure
    /\ UNCHANGED << viewVars, dragVars, filterVars, callVars, selectionVars, overlayVars, hidePassive, showExternalContacts, minInteractions,
                    startupVars, modelVars, processVars, clusterVars,
                    thresholdTimeout, disconnected >>

\* handleRefresh up to the await
HandleRefresh ==
    /\ ~disconnected
    /\ IssueRequest("refresh", hidePassive, minInteractions, showExternalContacts,
                    showHierarchy)
    /\ toasts' = << >>
    /\ NoFailure
    /\ UNCHANGED << viewVars, dragVars, filterVars, callVars, selectionVars, overlayVars, toggleVars, startupVars, modelVars, processVars, clusterVars,
                    thresholdTimeout, disconnected >>

\* handleThresholdChange: the value is stored and the debounce timer re-armed
HandleThresholdChange(v) ==
    /\ ~disconnected
    /\ minInteractions' = v
    /\ storage' = SavedToggleState(hidePassive, showExternalContacts,
                                   showHierarchy, v)
    /\ thresholdTimeout' = TRUE
    /\ toasts' = << >>
    /\ NoFailure
    /\ UNCHANGED << viewVars, dragVars, filterVars, callVars, selectionVars, overlayVars, hidePassive, showExternalContacts, showHierarchy, startupVars,
                    requestVars, modelVars, processVars, clusterVars, disconnected >>

\* the debounce timer's callback: loadGraphData
ThresholdTimerFires ==
    /\ thresholdTimeout
    /\ thresholdTimeout' = FALSE
    /\ IssueRequest("load", hidePassive, minInteractions, showExternalContacts,
                    showHierarchy)
    /\ toasts' = << >>
    /\ NoFailure
    /\ UNCHANGED << viewVars, dragVars, filterVars, callVars, selectionVars, overlayVars, toggleVars, startupVars, modelVars, processVars, clusterVars,
                    disconnected >>

\* loadGraphData / handleRefresh after the await: the call resolved with data
RequestResolves ==
    \E r \in inflight, data \in Payloads :
        /\ inflight' = inflight \ { r }
        /\ ProcessGraphData(data, r.seq)
        /\ toasts' = ProcessToasts(data)
                        \o (IF r.kind = "refresh" THEN << "success" >> ELSE << >>)
        /\ NoFailure
        /\ isLoading' = FALSE
        /\ UNCHANGED << viewVars, draggedNode, hoveredNode, filterVars, callVars, selectionVars, toggleVars, startupVars, nextSeq, processVars, clusterVars,
                        thresholdTimeout, disconnected >>

\* loadGraphData / handleRefresh after the await: the call rejected
RequestRejects(error) ==
    \E r \in inflight :
        /\ inflight' = inflight \ { r }
        /\ failedCall' = "request"
        /\ failedWith' = error
        /\ toasts' = << "error" >>
        /\ errorMessage' = ExtractErrorMessage(error)
        /\ uncaught' = FALSE
        /\ isLoading' = FALSE
        /\ UNCHANGED << viewVars, dragVars, filterVars, callVars, selectionVars, overlayVars, toggleVars,
                        startupVars, nextSeq, modelVars, processVars,
                        clusterVars, thresholdTimeout, disconnected >>

\* the simulation's own timer stops once alpha has decayed below alphaMin
SimulationCools ==
    /\ simulation = "running"
    /\ simulation' = "stopped"
    /\ toasts' = << >>
    /\ NoFailure
    /\ UNCHANGED << viewVars, dragVars, filterVars, callVars, selectionVars, overlayVars, toggleVars, startupVars, requestVars, graphData, nodes, edges,
                    modelSeq, processVars, clusterVars, thresholdTimeout,
                    disconnected >>

\* disconnectedCallback
DisconnectedCallback ==
    /\ ~disconnected
    /\ disconnected' = TRUE
    /\ simulation' = IF simulation # "none" THEN "stopped" ELSE simulation
    /\ toasts' = << >>
    /\ NoFailure
    /\ UNCHANGED << viewVars, dragVars, filterVars, callVars, selectionVars, overlayVars, toggleVars, startupVars, requestVars, graphData, nodes, edges,
                    modelSeq, processVars, clusterVars, thresholdTimeout >>

Next ==
    \/ ConfigLoaded
    \/ ConfigFailed
    \/ D3Loaded
    \/ D3Failed(ServerError)
    \/ ToggleHidePassive
    \/ ToggleExternalContacts
    \/ ToggleHierarchy
    \/ HandleRefresh
    \/ \E v \in ThresholdValues : HandleThresholdChange(v)
    \/ ThresholdTimerFires
    \/ RequestResolves
    \/ RequestRejects(ServerError)
    \/ SimulationCools
    \/ DisconnectedCallback

Spec == Init /\ [][Next]_vars

(***************************************************************************)
(* SpecDebounce: the threshold slider is moved while the component starts  *)
(***************************************************************************)
\* the values the slider is moved to in a burst
BurstValues == { 4, 7 }

\* the slider is the only control operated, so the saved state is written
\* by handleThresholdChange alone
NextDebounce ==
    \/ ConfigLoaded
    \/ ConfigFailed
    \/ D3Loaded
    \/ \E v \in BurstValues : HandleThresholdChange(v)
    \/ ThresholdTimerFires
    \/ RequestResolves

SpecDebounce == Init /\ [][NextDebounce]_vars

(***************************************************************************)
(* SpecStartup: connect with or without a saved state, then the config     *)
(* fetch and the library load complete in either order                     *)
(***************************************************************************)
InitStartup == ConnectedCallback(SavedStates)

\* the containers initCanvas may find: none, one without layout, one laid out
Containers == { NoContainer, UnmeasuredContainer, << 80, 60 >> }

\* no toggle or slider is operated, so the saved state stays as it was at
\* connect and D3Loaded issues the only load request
NextStartup ==
    \/ ConfigLoaded
    \/ ConfigFailed
    \/ \E container \in Containers : D3LoadedIn(container)
    \/ \E error \in ErrorValues : D3Failed(error)
    \/ HandleRefresh
    \/ RequestResolves
    \/ \E error \in ErrorValues : RequestRejects(error)
    \/ SimulationCools

SpecStartup == InitStartup /\ [][NextStartup]_vars

(***************************************************************************)
(* SpecInert: the controls are operated while the library loads, and after *)
(* it loaded or failed to load with any error value                        *)
(***************************************************************************)
NextInert ==
    \/ ConfigLoaded
    \/ D3Loaded
    \/ \E error \in ErrorValues : D3Failed(error)
    \/ ToggleHidePassive
    \/ ToggleHierarchy
    \/ HandleRefresh
    \/ \E v \in ThresholdValues : HandleThresholdChange(v)
    \/ ThresholdTimerFires
    \/ RequestResolves
    \/ RequestRejects(ServerError)
    \/ SimulationCools

SpecInert == Init /\ [][NextInert]_vars

(***************************************************************************)
(* SpecProcess: processGraphData applied to one payload                    *)
(***************************************************************************)
\* a payload has arrived; the model is still empty
InitProcess ==
    /\ payload \in RichPayloads
    /\ showHierarchy \in BOOLEAN
    /\ d3 \in { "ready", "failed" }
    /\ phase = "received"
    /\ hidePassive = TRUE
    /\ showExternalContacts = FALSE
    /\ minInteractions = 3
    /\ storage = NoSavedState
    /\ config = EmptyConfig
    /\ configState = "done"
    /\ inflight = {}
    /\ nextSeq = 2
    /\ isLoading = TRUE
    /\ graphData = "null"
    /\ nodes = << >>
    /\ edges = << >>
    /\ modelSeq = 0
    /\ simulation = "none"
    /\ thresholdTimeout = FALSE
    /\ disconnected = FALSE
    /\ toasts = << >>
    /\ labels = << >>
    /\ iter = 0
    /\ ViewAtRest
    /\ riskNodeIds = NoRisk
    /\ QuietAtRest

\* this.processGraphData(data)
ProcessPayload ==
    /\ phase = "received"
    /\ ProcessGraphData(payload, 1)
    /\ phase' = "processed"
    /\ toasts' = ProcessToasts(payload)
    /\ NoFailure
    /\ UNCHANGED << viewVars, draggedNode, hoveredNode, filterVars, callVars, selectionVars, toggleVars, startupVars, requestVars, payload, clusterVars,
                    thresholdTimeout, disconnected >>

NextProcess == ProcessPayload

SpecProcess == InitProcess /\ [][NextProcess]_vars

(***************************************************************************)
(* SpecMalformed: processGraphData applied to payloads with a node that    *)
(* has no id and with edges from a node to itself                          *)
(***************************************************************************)
\* the nodes of these payloads; the id "" stands for an absent id
MalformedNodePool ==
    << PNode("",    "Contact", FALSE, FALSE, "", ""),
       PNode("p1",  "Contact", FALSE, FALSE, "", ""),
       PNode("p2",  "Contact", FALSE, FALSE, "", ""),
       PNode("acc", "Account", FALSE, FALSE, "", "") >>

\* the edges of these payloads
MalformedEdgePool ==
    << PEdge("p1", "p1", "co_occurrence", 4),
       PEdge("p1", "p2", "co_occurrence", 5),
       PEdge("",   "p1", "co_occurrence", 2),
       PEdge("acc", "acc", "account_relationship", 1) >>

MalformedPayloads ==
    { Payload("data", ns, es) :
        ns \in SubSeqs(MalformedNodePool, MaxPayloadNodes),
        es \in SubSeqs(MalformedEdgePool, MaxPayloadEdges) }

\* such a payload has arrived; the model is still empty
InitMalformed ==
    /\ QuietAtRest
    /\ payload \in MalformedPayloads
    /\ showHierarchy \in BOOLEAN
    /\ d3 \in { "ready", "failed" }
    /\ phase = "received"
    /\ hidePassive = TRUE
    /\ showExternalContacts = FALSE
    /\ minInteractions = 3
    /\ storage = NoSavedState
    /\ config = EmptyConfig
    /\ configState = "done"
    /\ inflight = {}
    /\ nextSeq = 2
    /\ isLoading = TRUE
    /\ graphData = "null"
    /\ nodes = << >>
    /\ edges = << >>
    /\ modelSeq = 0
    /\ simulation = "none"
    /\ thresholdTimeout = FALSE
    /\ disconnected = FALSE
    /\ toasts = << >>
    /\ labels = << >>
    /\ iter = 0
    /\ ViewAtRest
    /\ riskNodeIds = NoRisk

SpecMalformed == InitMalformed /\ [][NextProcess]_vars

(***************************************************************************)
(* SpecNotice: processGraphData applied to payloads that are flagged       *)
(* truncated or carry warnings                                             *)
(***************************************************************************)
\* the values of data.totalContactCount; 0 stands for an absent field
ContactTotals == { 0, 750 }

\* the values of data.warnings
WarningLists == { << >>, << "w1" >>, << "w1", "w2" >> }

NoticePayloads ==
    { WithNotices(p, truncated, total, warnings) :
        p \in { q \in Payloads : q.kind # "null" },
        truncated \in BOOLEAN, total \in ContactTotals,
        warnings \in WarningLists }

\* such a payload has arrived; the model is still empty
InitNotice ==
    /\ QuietAtRest
    /\ payload \in NoticePayloads
    /\ showHierarchy \in BOOLEAN
    /\ d3 \in { "ready", "failed" }
    /\ phase = "received"
    /\ hidePassive = TRUE
    /\ showExternalContacts = FALSE
    /\ minInteractions = 3
    /\ storage = NoSavedState
    /\ config = EmptyConfig
    /\ configState = "done"
    /\ inflight = {}
    /\ nextSeq = 2
    /\ isLoading = TRUE
    /\ graphData = "null"
    /\ nodes = << >>
    /\ edges = << >>
    /\ modelSeq = 0
    /\ simulation = "none"
    /\ thresholdTimeout = FALSE
    /\ disconnected = FALSE
    /\ toasts = << >>
    /\ labels = << >>
    /\ iter = 0
    /\ ViewAtRest
    /\ riskNodeIds = NoRisk

SpecNotice == InitNotice /\ [][NextProcess]_vars

(***************************************************************************)
(* SpecCluster: computeClusters, one propagation pass per step             *)
(***************************************************************************)
\* ids of the Contact nodes of the graphs drawn for SpecCluster
ContactIdNames == << "c1", "c2", "c3", "c4", "c5", "c6", "c7", "c8" >>

\* the co-occurrence edges those graphs are drawn from
ClusterEdgePool ==
    << PEdge("c4", "c5", "co_occurrence", 1),
       PEdge("c1", "c4", "co_occurrence", 1),
       PEdge("c1", "c3", "co_occurrence", 1),
       PEdge("c1", "c2", "co_occurrence", 0),
       PEdge("c3", "c4", "co_occurrence", 2),
       PEdge("c5", "c6", "co_occurrence", 3) >>

\* the payloads of n Contact nodes and some of the pool's edges among them
ClusterPayloads ==
    { Payload("data",
              [ i \in 1..n |-> PNode(ContactIdNames[i], "Contact", FALSE, FALSE, "", "") ],
              SeqOfSet(ClusterEdgePool, idx)) :
        n \in 1..MaxContacts, idx \in SUBSET DOMAIN ClusterEdgePool }

\* processGraphData has built this.nodes and this.edges and computeClusters
\* has initialised its labels
ClusterStart(payloads) ==
    /\ QuietAtRest
    /\ payload \in payloads
    /\ LET built == BuiltModel(payload, FALSE)
       IN  /\ nodes = built.nodes
           /\ edges = built.edges
           /\ labels = InitLabels(built.nodes)
    /\ iter = 0
    /\ phase = "propagate"
    /\ showHierarchy = FALSE
    /\ d3 = "ready"
    /\ hidePassive = TRUE
    /\ showExternalContacts = FALSE
    /\ minInteractions = 3
    /\ storage = NoSavedState
    /\ config = EmptyConfig
    /\ configState = "done"
    /\ inflight = {}
    /\ nextSeq = 2
    /\ isLoading = TRUE
    /\ graphData = "data"
    /\ modelSeq = 1
    /\ simulation = "none"
    /\ thresholdTimeout = FALSE
    /\ disconnected = FALSE
    /\ toasts = << >>
    /\ ViewAtRest
    /\ riskNodeIds = NoRisk

InitCluster == ClusterStart(ClusterPayloads)

\* one pass of the for (iter ...) loop, in one of the visiting orders
PropagationPassIn(orders) ==
    /\ phase = "propagate"
    /\ iter < MaxPasses
    /\ \E order \in orders :
         LET r == RunPass(order, labels, Adjacency(nodes, edges))
         IN  /\ labels' = r.labels
             /\ IF r.changed
                THEN /\ iter' = iter + 1
                     /\ phase' = IF iter + 1 < MaxPasses THEN "propagate" ELSE "assign"
                ELSE /\ iter' = iter
                     /\ phase' = "assign"
    /\ UNCHANGED << viewVars, dragVars, filterVars, callVars, selectionVars, overlayVars, toggleVars, startupVars, requestVars, modelVars, payload,
                    thresholdTimeout, disconnected, toasts, failureVars >>

\* one pass of the for (iter ...) loop, in any visiting order
PropagationPass == PropagationPassIn(VisitOrders(nodes))

\* the cluster ids are normalised and assigned to the nodes
AssignClusterIds ==
    /\ phase = "assign"
    /\ nodes' = AssignClusters(nodes, labels)
    /\ phase' = "clustered"
    /\ UNCHANGED << viewVars, dragVars, filterVars, callVars, selectionVars, overlayVars, toggleVars, startupVars, requestVars, graphData, edges,
                    modelSeq, simulation, payload, clusterVars,
                    thresholdTimeout, disconnected, toasts, failureVars >>

NextCluster ==
    \/ PropagationPass
    \/ AssignClusterIds

SpecCluster == InitCluster /\ [][NextCluster]_vars

(***************************************************************************)
(* SpecWeight: computeClusters on three Contact nodes whose co-occurrence  *)
(* edges carry positive, zero and negative interaction counts              *)
(***************************************************************************)
\* the values of edge.interactionCount; 0 stands for a count that is zero or
\* not set
WeightCounts == { -2, 0, 1, 3 }

\* the payloads of three Contact nodes linked pairwise
WeightPayloads ==
    { Payload("data",
              [ i \in 1..3 |-> PNode(ContactIdNames[i], "Contact", FALSE, FALSE, "", "") ],
              << PEdge("c1", "c2", "co_occurrence", w[1]),
                 PEdge("c2", "c3", "co_occurrence", w[2]),
                 PEdge("c1", "c3", "co_occurrence", w[3]) >>) :
        w \in [ 1..3 -> WeightCounts ] }

InitWeight == ClusterStart(WeightPayloads)

SpecWeight == InitWeight /\ [][NextCluster]_vars

(***************************************************************************)
(* SpecChain: computeClusters on chains of Contact nodes, the shuffle      *)
(* giving the payload order or its reverse in each pass                    *)
(***************************************************************************)
\* largest number of Contact nodes in a chain
MaxChain == 12

ChainIdNames ==
    << "c01", "c02", "c03", "c04", "c05", "c06", "c07", "c08", "c09", "c10",
       "c11", "c12", "c13", "c14" >>

\* the interactionCount of the i-th edge of a chain: rising along the chain,
\* or unset
ChainWeightings == { "rising", "unset" }
ChainWeight(weighting, i) == IF weighting = "rising" THEN i ELSE 0

\* the payloads of n Contact nodes, each linked to the next
ChainPayloads ==
    { Payload("data",
              [ i \in 1..n |-> PNode(ChainIdNames[i], "Contact", FALSE, FALSE, "", "") ],
              [ i \in 1..(n - 1) |->
                  PEdge(ChainIdNames[i], ChainIdNames[i + 1], "co_occurrence",
                        ChainWeight(weighting, i)) ]) :
        n \in 2..MaxChain, weighting \in ChainWeightings }

\* two of the orders the shuffle may give: the order of the contact nodes
\* and its reverse
ChainOrders(ns) ==
    LET cs == ContactNodes(ns)
    IN  { [ k \in 1..Len(cs) |-> cs[k].id ],
          [ k \in 1..Len(cs) |-> cs[Len(cs) + 1 - k].id ] }

InitChain == ClusterStart(ChainPayloads)

NextChain ==
    \/ PropagationPassIn(ChainOrders(nodes))
    \/ AssignClusterIds

SpecChain == InitChain /\ [][NextChain]_vars

(***************************************************************************)
(* SpecFailure: the external calls fail, with every kind of error value    *)
(***************************************************************************)
\* overrideClassification calls in flight at a time
MaxOverrides == 2

\* event.detail.value of the classification picker
Classifications == { "Champion", "Blocker" }

\* the list seq without its element number i
RemoveAt(seq, i) == [ k \in 1..(Len(seq) - 1) |-> IF k < i THEN seq[k] ELSE seq[k + 1] ]

\* handleClassificationOverride up to the await: the call is issued for
\* the selected node
HandleClassificationOverride(newClassification) ==
    /\ selectedNode # ""
    /\ Len(overrides) < MaxOverrides
    /\ overrides' = Append(overrides, [ contactId |-> selectedNode,
                                        classification |-> newClassification ])
    /\ toasts' = << >>
    /\ NoFailure
    /\ UNCHANGED << viewVars, dragVars, filterVars, callVars, overlayVars, toggleVars, startupVars, requestVars,
                    modelVars, processVars, clusterVars, thresholdTimeout,
                    disconnected, selectedNode >>

\* handleClassificationOverride after the await: the call rejected
OverrideRejects(error) ==
    \E i \in 1..Len(overrides) :
        /\ overrides' = RemoveAt(overrides, i)
        /\ failedCall' = "override"
        /\ failedWith' = error
        /\ toasts' = << "error" >>
        /\ errorMessage' = ExtractErrorMessage(error)
        /\ uncaught' = FALSE
        /\ UNCHANGED << viewVars, dragVars, filterVars, callVars, overlayVars, toggleVars, startupVars,
                        requestVars, modelVars, processVars, clusterVars,
                        thresholdTimeout, disconnected, selectedNode >>

\* the component after its first load has built a model and a click has
\* selected one of the nodes
LoadedWithSelection ==
    /\ activeFilters = << >>
    /\ hidePassive = TRUE
    /\ showExternalContacts = FALSE
    /\ showHierarchy = FALSE
    /\ minInteractions = 3
    /\ storage = NoSavedState
    /\ config = EmptyConfig
    /\ configState = "failed"
    /\ d3 = "ready"
    /\ inflight = {}
    /\ nextSeq = 2
    /\ isLoading = FALSE
    /\ graphData = "data"
    /\ \E data \in { p \in Payloads : p.kind = "data" } :
         LET built == BuiltModel(data, FALSE)
         IN  /\ edges = built.edges
             /\ riskNodeIds = RiskIndex(data.riskAlerts)
             /\ \E l \in ClusterOutcomes(built.nodes, built.edges) :
                    nodes = StartSimulationNodes(
                               AssignClusters(built.nodes, l), FALSE, "ready")
    /\ modelSeq = 1
    /\ simulation = "running"
    /\ thresholdTimeout = FALSE
    /\ disconnected = FALSE
    /\ toasts = << >>
    /\ payload = NullPayload
    /\ phase = "life"
    /\ labels = << >>
    /\ iter = 0
    /\ ViewAtRest
    /\ failedCall = ""
    /\ failedWith = NoError
    /\ uncaught = FALSE
    /\ errorMessage = ""
    /\ selectedNode \in { nodes[i].id : i \in 1..Len(nodes) }
    /\ overrides = << >>
    /\ draggedNode = NoDrag
    /\ hoveredNode = NoHover
    /\ alphaTarget = 0
    /\ input = << >>
    /\ output = << >>

InitFailure == Init \/ LoadedWithSelection

NextFailure ==
    \/ D3Loaded
    \/ \E error \in ErrorValues : D3Failed(error)
    \/ HandleRefresh
    \/ ToggleHidePassive
    \/ \E error \in ErrorValues : RequestRejects(error)
    \/ \E c \in Classifications : HandleClassificationOverride(c)
    \/ \E error \in ErrorValues : OverrideRejects(error)

SpecFailure == InitFailure /\ [][NextFailure]_vars

(***************************************************************************)
(* SpecRisk: processGraphData applied to a payload with risk alerts        *)
(***************************************************************************)
\* length of the payload's riskAlerts list
MaxAlerts == 3

\* subjects of the risk alerts; "" is an alert without contactId
AlertSubjects == { "", "c1", "c2" }

\* the closed set of severities
Severities == { "high", "medium" }

\* the alerts the lists are made of
AlertPool == { RiskAlert(id, sev) : id \in AlertSubjects, sev \in Severities }

\* every list of at most MaxAlerts alerts, in every order
AlertLists == UNION { [ 1..n -> AlertPool ] : n \in 0..MaxAlerts }

\* payloads of two Contact nodes and a list of risk alerts
RiskPayloads ==
    { WithRiskAlerts(
          Payload("data",
                  << PNode("c1", "Contact", FALSE, FALSE, "", ""),
                     PNode("c2", "Contact", FALSE, FALSE, "", "") >>,
                  << >>),
          alerts) : alerts \in AlertLists }

\* a payload with risk alerts has arrived; the model is still empty
InitRisk ==
    /\ payload \in RiskPayloads
    /\ phase = "received"
    /\ hidePassive = TRUE
    /\ showExternalContacts = FALSE
    /\ showHierarchy = FALSE
    /\ minInteractions = 3
    /\ storage = NoSavedState
    /\ config = EmptyConfig
    /\ configState = "done"
    /\ d3 = "ready"
    /\ inflight = {}
    /\ nextSeq = 2
    /\ isLoading = TRUE
    /\ graphData = "null"
    /\ nodes = << >>
    /\ edges = << >>
    /\ modelSeq = 0
    /\ simulation = "none"
    /\ thresholdTimeout = FALSE
    /\ disconnected = FALSE
    /\ toasts = << >>
    /\ labels = << >>
    /\ iter = 0
    /\ ViewAtRest
    /\ riskNodeIds = NoRisk
    /\ QuietAtRest

SpecRisk == InitRisk /\ [][NextProcess]_vars

(***************************************************************************)
(* SpecLegend: processGraphData applied to payloads with moved contacts    *)
(* and risk alerts, and the legend drawLegend draws for the outcome        *)
(***************************************************************************)
\* the nodes the payloads of SpecLegend are made of
LegendNodePool ==
    << PNode("c1", "Contact", FALSE, FALSE, "", ""),
       PNode("m1", "Contact", FALSE, TRUE,  "Rival Corp", "co1"),
       PNode("m4", "Contact", FALSE, TRUE,  "", ""),
       PNode("op", "Opportunity", FALSE, FALSE, "", "") >>

\* subjects of the risk alerts: none, a contact of the payload, its
\* opportunity, and a contact the payload does not list
LegendSubjects == { "", "c1", "op", "c9" }

\* lengths of the riskAlerts lists
LegendAlertCounts == { 0, 1, 2 }

LegendAlertLists ==
    UNION { [ 1..n -> { RiskAlert(id, sev) : id \in LegendSubjects,
                                             sev \in Severities } ]
              : n \in LegendAlertCounts }

LegendPayloads ==
    { WithRiskAlerts(Payload("data", ns, << >>), alerts) :
        ns \in SubSeqs(LegendNodePool, Len(LegendNodePool)),
        alerts \in LegendAlertLists }

\* this.movedContactCount as processGraphData sets it
MovedContactCount(data) ==
    Cardinality({ i \in 1..Len(data.nodes) : data.nodes[i].hasMovedCompany })

\* drawNode: the node n gets a dashed risk ring
HasRiskRing(n, risk) == n.nodeType = "Contact" /\ n.id \in DOMAIN risk

\* drawLegend: the list legendItems, by item type
LegendItems(risk, movedCount, es) ==
    (IF DOMAIN risk # {} THEN << "ring" >> ELSE << >>)
      \o (IF movedCount > 0 THEN << "moved" >> ELSE << >>)
      \o (IF \E k \in 1..Len(es) : es[k].edgeType = "moved_to"
          THEN << "arrow" >> ELSE << >>)

\* drawLegend: whether the legend box is drawn
LegendDrawn(items) == Len(items) # 0

\* such a payload has arrived; the model is still empty
InitLegend ==
    /\ QuietAtRest
    /\ payload \in LegendPayloads
    /\ showHierarchy = FALSE
    /\ d3 = "ready"
    /\ phase = "received"
    /\ hidePassive = TRUE
    /\ showExternalContacts = FALSE
    /\ minInteractions = 3
    /\ storage = NoSavedState
    /\ config = EmptyConfig
    /\ configState = "done"
    /\ inflight = {}
    /\ nextSeq = 2
    /\ isLoading = TRUE
    /\ graphData = "null"
    /\ nodes = << >>
    /\ edges = << >>
    /\ modelSeq = 0
    /\ simulation = "none"
    /\ thresholdTimeout = FALSE
    /\ disconnected = FALSE
    /\ toasts = << >>
    /\ labels = << >>
    /\ iter = 0
    /\ ViewAtRest
    /\ riskNodeIds = NoRisk

SpecLegend == InitLegend /\ [][NextProcess]_vars

(***************************************************************************)
(* SpecView: the view transform under wheel, toolbar and pan events, on a  *)
(* canvas whose model is empty.  SpecWheel: a run of wheel zoom-in events  *)
(* at one pointer position, from the initial transform.                    *)
(***************************************************************************)
\* events handled in a run of SpecView
MaxViewEvents == 3

\* pointer events handled in a run of SpecPointer
MaxPointerEvents == 5

\* toolbar zoom presses that precede a run of SpecView
MaxStartPresses == 13

\* wheel events handled in a run of SpecWheel
MaxWheelEvents == 36

\* Math.max(0.1, ...) and Math.min(5, ...): the bounds of the scale. The
\* literal 0.1 is the double nearest to 1/10, Over(Num(1), Num(10)):
\* 7205759403792794 * 2^-56; the literal 5 is Num(5)
MinScale == Double(<< 6554, 9830, 6553, 1638 >>, -56)
MaxScale == Double(<< 0, 0, 0, 1280 >>, -50)

\* the factors 1.05 and 1 / 1.05: the double nearest to 105/100,
\* Over(Num(105), Num(100)) = 4728779608739021 * 2^-52, and the quotient
\* Over(One, WheelInFactor) = 8578285004515230 * 2^-53
WheelInFactor    == Double(<< 3277, 13107, 3276, 1075 >>, -52)
WheelOutFactor   == Double(<< 10142, 14823, 7801, 1950 >>, -53)

\* the factors 1.2 and 1 / 1.2: the double nearest to 12/10,
\* Over(Num(12), Num(10)) = 5404319552844595 * 2^-52, and the quotient
\* Over(One, ButtonInFactor) = 7505999378950827 * 2^-53
ButtonInFactor   == Double(<< 13107, 3276, 13107, 1228 >>, -52)
ButtonOutFactor  == Double(<< 10923, 10922, 10922, 1706 >>, -53)

\* faulty variant of ScaleFactor: the sign test is inverted
ScaleFactorInverted(deltaY) == IF deltaY > 0 THEN WheelInFactor ELSE WheelOutFactor

\* const scaleFactor = event.deltaY < 0 ? 1.05 : 1 / 1.05
ScaleFactor(deltaY) == IF deltaY < 0 THEN WheelInFactor ELSE WheelOutFactor

\* Math.max(a, b) and Math.min(a, b)
MaxOf(a, b) == IF Exceeds(b, a) THEN b ELSE a
MinOf(a, b) == IF Exceeds(a, b) THEN b ELSE a

\* faulty variant of ClampScale: the upper bound is forgotten
ClampScaleLowerOnly(v) == MaxOf(MinScale, v)

\* Math.max(0.1, Math.min(5, v))
ClampScale(v) == MaxOf(MinScale, MinOf(MaxScale, v))

\* const newK = Math.max(0.1, Math.min(5, this.transform.k * factor))
NewScale(k, f) == ClampScale(Times(k, f))

\* faulty variant of Reanchor: the offset is scaled about the origin
ReanchorAboutOrigin(m, t, k, newK) == Times(t, Over(newK, k))

\* m - (m - t) * (newK / k), each operation rounded
Reanchor(m, t, k, newK) == Minus(m, Times(Minus(m, t), Over(newK, k)))

\* the transform after a zoom by factor f about the pivot (mx, my)
ZoomAbout(tr, mx, my, f) ==
    LET newK == NewScale(tr.k, f)
    IN  [ x |-> Reanchor(mx, tr.x, tr.k, newK),
          y |-> Reanchor(my, tr.y, tr.k, newK),
          k |-> newK ]

RECURSIVE ZoomedTimes(_, _, _, _, _)
\* the transform after n presses of a toolbar zoom button
ZoomedTimes(tr, w, h, f, n) ==
    IF n = 0 THEN tr
    ELSE CHOOSE after \in { ZoomAbout(before, Over(Num(w), Num(2)),
                                       Over(Num(h), Num(2)), f) :
                               before \in { ZoomedTimes(tr, w, h, f, n - 1) } } : TRUE


\* container.clientWidth and clientHeight, as initCanvas and the resize
\* observer read them
CanvasSizes == { << 80, 60 >>, << 40, 30 >> }

\* event.clientX - rect.left and event.clientY - rect.top, in pixels
MousePositions == { << 0, 0 >>, << 30, 20 >> }

\* event.deltaY of a wheel event
WheelDeltas == { -1, 1 }

\* event.movementX and event.movementY, in pixels
Movements == { << 7, -3 >> }

\* everything but the view
dataVars == << toggleVars, startupVars, requestVars, modelVars, processVars,
               clusterVars, thresholdTimeout, disconnected, toasts,
               overlayVars, failureVars, selectionVars, dragVars, filterVars,
               callVars >>

\* the component after a first load that brought no nodes: the state of
\* the data in the runs of SpecView and SpecWheel
EmptyModelLoaded ==
    /\ hidePassive = TRUE
    /\ showExternalContacts = FALSE
    /\ showHierarchy = FALSE
    /\ minInteractions = 3
    /\ storage = NoSavedState
    /\ config = EmptyConfig
    /\ configState = "done"
    /\ d3 = "ready"
    /\ inflight = {}
    /\ nextSeq = 2
    /\ isLoading = FALSE
    /\ graphData = "empty"
    /\ nodes = << >>
    /\ edges = << >>
    /\ modelSeq = 0
    /\ simulation = "none"
    /\ thresholdTimeout = FALSE
    /\ disconnected = FALSE
    /\ toasts = << >>
    /\ payload = NoNodesPayload
    /\ labels = << >>
    /\ iter = 0
    /\ riskNodeIds = NoRisk
    /\ QuietAtRest

\* the number of events a run handles
EventCap ==
    IF phase = "wheel" THEN MaxWheelEvents
    ELSE IF phase = "pointer" THEN MaxPointerEvents
    ELSE MaxViewEvents

\* handleWheel
HandleWheel(deltaY, m) ==
    /\ viewEvents < EventCap
    /\ transform' = ZoomAbout(transform, Num(m[1]), Num(m[2]), ScaleFactor(deltaY))
    /\ lastEvent' = "wheel"
    /\ zoomPivot' = << Num(m[1]), Num(m[2]) >>
    /\ viewEvents' = viewEvents + 1
    /\ UNCHANGED << dataVars, lastHit, width, height, isPanning >>

\* _applyZoom(factor)
ApplyZoom(f, event) ==
    LET centerX == Over(Num(width), Num(2))
        centerY == Over(Num(height), Num(2))
    IN  /\ viewEvents < EventCap
        /\ transform' = ZoomAbout(transform, centerX, centerY, f)
        /\ lastEvent' = event
        /\ zoomPivot' = << centerX, centerY >>
        /\ viewEvents' = viewEvents + 1
        /\ UNCHANGED << dataVars, lastHit, width, height, isPanning >>

\* handleZoomIn
HandleZoomIn == ApplyZoom(ButtonInFactor, "zoomIn")

\* handleZoomOut
HandleZoomOut == ApplyZoom(ButtonOutFactor, "zoomOut")

\* handleZoomReset
HandleZoomReset ==
    /\ viewEvents < EventCap
    /\ transform' = InitialTransform
    /\ lastEvent' = "zoomReset"
    /\ viewEvents' = viewEvents + 1
    /\ UNCHANGED << dataVars, lastHit, width, height, isPanning, zoomPivot >>

\* what the pointer events leave alone, apart from the view, the model,
\* the drag and the selection
pointerFrame == << toggleVars, startupVars, requestVars, graphData, edges,
                   modelSeq, processVars, clusterVars, thresholdTimeout,
                   disconnected, overlayVars, overrides, filterVars,
                   callVars >>

\* the runs of SpecView, SpecWheel and SpecPointer count their events
CountEvent ==
    viewEvents' = IF phase \in { "view", "wheel", "pointer" }
                  THEN viewEvents + 1
                  ELSE viewEvents

\* the results findNodeAt can have: a place in this.nodes, or 0 for null
Hits == 0..Len(nodes)

\* is the dragged node a node of the model on display
DragsCurrent(drag) == drag.model = modelSeq /\ drag.index \in 1..Len(nodes)

\* this.simulation.restart(), where there is a simulation
Restarted(sim) == IF sim # "none" THEN "running" ELSE sim

\* handleMouseUp: fx / fy of the released node are set again only for the
\* primary Account node in hierarchy mode
PinAfterDrag(n, hier) == hier /\ IsPrimaryAccount(n)

\* handleMouseDown; hit is what findNodeAt returns
HandleMouseDown(hit) ==
    /\ viewEvents < EventCap
    /\ d3 = "ready"
    /\ hit \in Hits
    /\ IF hit > 0
       THEN /\ draggedNode' = [ model |-> modelSeq, index |-> hit ]
            /\ UNCHANGED hoveredNode
            /\ nodes' = [ nodes EXCEPT ![hit].pinned = TRUE ]
            /\ alphaTarget' = IF simulation # "none" THEN 3 ELSE alphaTarget
            /\ simulation' = Restarted(simulation)
            /\ UNCHANGED isPanning
       ELSE /\ isPanning' = TRUE
            /\ UNCHANGED << nodes, simulation, dragVars >>
    /\ lastEvent' = "mousedown"
    /\ lastHit' = hit
    /\ CountEvent
    /\ toasts' = << >>
    /\ NoFailure
    /\ UNCHANGED << pointerFrame, selectedNode, transform, width, height,
                    zoomPivot >>

\* the node findNodeAt returned, as this.hoveredNode holds it
Hovered(hit) == IF hit = 0 THEN NoHover ELSE [ model |-> modelSeq, index |-> hit ]

\* handleMouseMove: the dragged node follows the pointer; otherwise the
\* view pans while isPanning; otherwise the hover test, hit being what
\* findNodeAt returns
HandleMouseMoveOver(d, hit) ==
    /\ viewEvents < EventCap
    /\ d3 = "ready"
    /\ hit \in Hits
    /\ IF draggedNode # NoDrag
       THEN /\ nodes' = IF DragsCurrent(draggedNode)
                        THEN [ nodes EXCEPT ![draggedNode.index].pinned = TRUE ]
                        ELSE nodes
            /\ simulation' = Restarted(simulation)
            /\ lastEvent' = "drag"
            /\ UNCHANGED << transform, hoveredNode >>
       ELSE /\ IF isPanning
               THEN /\ transform' = [ transform EXCEPT !.x = Plus(@, Num(d[1])),
                                                       !.y = Plus(@, Num(d[2])) ]
                    /\ UNCHANGED hoveredNode
               ELSE /\ hoveredNode' = Hovered(hit)
                    /\ UNCHANGED transform
            /\ lastEvent' = "mousemove"
            /\ UNCHANGED << nodes, simulation >>
    /\ lastHit' = 0
    /\ CountEvent
    /\ toasts' = << >>
    /\ NoFailure
    /\ UNCHANGED << pointerFrame, selectedNode, draggedNode, alphaTarget,
                    width, height, isPanning, zoomPivot >>

\* handleMouseMove with the pointer over no node
HandleMouseMove(d) == HandleMouseMoveOver(d, 0)

\* handleMouseUp
HandleMouseUp ==
    /\ viewEvents < EventCap
    /\ d3 = "ready"
    /\ IF draggedNode # NoDrag
       THEN /\ nodes' =
                 IF DragsCurrent(draggedNode)
                 THEN [ nodes EXCEPT ![draggedNode.index].pinned =
                            PinAfterDrag(nodes[draggedNode.index], showHierarchy) ]
                 ELSE nodes
            /\ draggedNode' = NoDrag
            /\ UNCHANGED hoveredNode
            /\ alphaTarget' = IF simulation # "none" THEN 0 ELSE alphaTarget
            /\ lastEvent' = IF lastEvent = "drag" THEN "dragend" ELSE "mouseup"
       ELSE /\ lastEvent' = "mouseup"
            /\ UNCHANGED << nodes, dragVars >>
    /\ isPanning' = FALSE
    /\ lastHit' = 0
    /\ CountEvent
    /\ toasts' = << >>
    /\ NoFailure
    /\ UNCHANGED << pointerFrame, selectedNode, simulation, transform, width,
                    height, zoomPivot >>

\* handleCanvasClick; hit is what findNodeAt returns
HandleCanvasClick(hit) ==
    /\ viewEvents < EventCap
    /\ d3 = "ready"
    /\ hit \in Hits
    /\ selectedNode' = IF hit > 0 THEN nodes[hit].id ELSE ""
    /\ lastEvent' = "click"
    /\ lastHit' = hit
    /\ CountEvent
    /\ toasts' = << >>
    /\ NoFailure
    /\ UNCHANGED << pointerFrame, nodes, simulation, dragVars, transform,
                    width, height, isPanning, zoomPivot >>

\* node.x and node.y as the layout left them, in pixels
NodePositions == { << 0, 0 >>, << 50, -20 >> }

\* event.currentTarget.dataset.contactId of the rows of the risk panel: none,
\* the id of no node, the ids of the nodes
AlertRowIds == { "", "003-absent" } \cup { nodes[i].id : i \in 1..Len(nodes) }

\* this.width / 2 - node.x * this.transform.k
CentredOn(size, at, k) ==
    Minus(Over(Num(size), Num(2)), Times(Num(at), k))

\* handleRiskAlertClick; pos is the position of the node found
HandleRiskAlertClick(contactId, pos) ==
    /\ contactId \in AlertRowIds
    /\ IF contactId # "" /\ \E i \in 1..Len(nodes) : nodes[i].id = contactId
       THEN /\ selectedNode' = contactId
            /\ transform' =
                 [ transform EXCEPT !.x = CentredOn(width, pos[1], transform.k),
                                    !.y = CentredOn(height, pos[2], transform.k) ]
       ELSE UNCHANGED << selectedNode, transform >>
    /\ toasts' = << >>
    /\ NoFailure
    /\ UNCHANGED << pointerFrame, nodes, simulation, dragVars, width, height,
                    isPanning, lastEvent, lastHit, zoomPivot, viewEvents >>

\* closeDetailPanel
CloseDetailPanel ==
    /\ selectedNode' = ""
    /\ toasts' = << >>
    /\ NoFailure
    /\ UNCHANGED << pointerFrame, nodes, simulation, dragVars, viewVars >>

\* the ResizeObserver callback of initCanvas
HandleResize(size) ==
    /\ viewEvents < EventCap
    /\ width' = size[1]
    /\ height' = size[2]
    /\ lastEvent' = "resize"
    /\ viewEvents' = viewEvents + 1
    /\ UNCHANGED << dataVars, lastHit, transform, isPanning, zoomPivot >>

\* initCanvas has run and some toolbar zoom presses have been handled
InitView ==
    /\ EmptyModelLoaded
    /\ phase = "view"
    /\ \E size \in CanvasSizes, n \in 0..MaxStartPresses,
          f \in { ButtonInFactor, ButtonOutFactor } :
         /\ width = size[1]
         /\ height = size[2]
         /\ transform = ZoomedTimes(InitialTransform, size[1], size[2], f, n)
    /\ isPanning = FALSE
    /\ lastEvent = "none"
    /\ lastHit = 0
    /\ zoomPivot = << Zero, Zero >>
    /\ viewEvents = 0

NextView ==
    \/ \E deltaY \in WheelDeltas, m \in MousePositions : HandleWheel(deltaY, m)
    \/ HandleZoomIn
    \/ HandleZoomOut
    \/ HandleZoomReset
    \/ \E hit \in Hits : HandleMouseDown(hit)
    \/ \E d \in Movements : HandleMouseMove(d)
    \/ HandleMouseUp
    \/ \E size \in CanvasSizes : HandleResize(size)

SpecView == InitView /\ [][NextView]_vars

\* initCanvas has run; the pointer rests at one position of the canvas
InitWheel ==
    /\ EmptyModelLoaded
    /\ phase = "wheel"
    /\ \E size \in CanvasSizes : width = size[1] /\ height = size[2]
    /\ transform = InitialTransform
    /\ isPanning = FALSE
    /\ lastEvent = "none"
    /\ lastHit = 0
    /\ zoomPivot \in { << Num(m[1]), Num(m[2]) >> : m \in MousePositions }
    /\ viewEvents = 0

\* a wheel zoom-in event at the position the pointer rests at
WheelZoomIn ==
    \E m \in MousePositions :
        /\ zoomPivot = << Num(m[1]), Num(m[2]) >>
        /\ HandleWheel(-1, m)

NextWheel == WheelZoomIn

SpecWheel == InitWheel /\ [][NextWheel]_vars

(***************************************************************************)
(* SpecPointer: pointer events on the canvas of a loaded component, while  *)
(* the hierarchy toggle is used and its load is answered                   *)
(***************************************************************************)
\* what the load that built the model on display resolved with
PointerPayloads == { p \in Payloads : p.kind = "data" }

\* the component after its first load has built a model; hier is
\* this.showHierarchy, restored from the saved state when it is on
ModelLoaded(hier) ==
    /\ QuietAtRest
    /\ hidePassive = TRUE
    /\ showExternalContacts = FALSE
    /\ showHierarchy = hier
    /\ minInteractions = 3
    /\ storage = IF hier THEN SavedToggleState(TRUE, FALSE, TRUE, 3)
                 ELSE NoSavedState
    /\ config = EmptyConfig
    /\ configState = "failed"
    /\ d3 = "ready"
    /\ inflight = {}
    /\ nextSeq = 2
    /\ isLoading = FALSE
    /\ graphData = "data"
    /\ \E data \in PointerPayloads :
         LET built == BuiltModel(data, hier)
         IN  /\ edges = built.edges
             /\ riskNodeIds = RiskIndex(data.riskAlerts)
             /\ \E l \in ClusterOutcomes(built.nodes, built.edges) :
                    nodes = StartSimulationNodes(
                               AssignClusters(built.nodes, l), hier, "ready")
    /\ modelSeq = 1
    /\ simulation = "running"
    /\ thresholdTimeout = FALSE
    /\ disconnected = FALSE
    /\ toasts = << >>
    /\ payload = NullPayload
    /\ labels = << >>
    /\ iter = 0
    /\ ViewAtRest

InitPointer ==
    /\ \E hier \in BOOLEAN : ModelLoaded(hier)
    /\ phase = "pointer"

NextPointer ==
    \/ \E hit \in Hits : HandleMouseDown(hit)
    \/ \E d \in Movements : HandleMouseMove(d)
    \/ HandleMouseUp
    \/ \E hit \in Hits : HandleCanvasClick(hit)
    \/ ToggleHierarchy
    \/ RequestResolves
    \/ RequestRejects(ServerError)
    \/ SimulationCools

SpecPointer == InitPointer /\ [][NextPointer]_vars

(***************************************************************************)
(* SpecHover: the pointer moves over the nodes of a loaded model, presses  *)
(* and releases, while a toggle reloads the model                          *)
(***************************************************************************)
NextHover ==
    \/ \E d \in Movements, hit \in Hits : HandleMouseMoveOver(d, hit)
    \/ \E hit \in Hits : HandleMouseDown(hit)
    \/ HandleMouseUp
    \/ ToggleHierarchy
    \/ RequestResolves

SpecHover == InitPointer /\ [][NextHover]_vars

(***************************************************************************)
(* SpecOverride: classifications are overridden while clicks change the    *)
(* selection                                                               *)
(***************************************************************************)
\* the TypeError of this.selectedNode.classification = ... with selectedNode
\* null, in the words of V8
TypeErrorOnNull ==
    ErrorValue("object", "", FALSE, "",
               "Cannot set properties of null (setting 'classification')")

\* this.nodes.find(n => n.id === id): its place in this.nodes, 0 when there
\* is none
FindNodeById(ns, id) ==
    IF \E i \in 1..Len(ns) : ns[i].id = id
    THEN CHOOSE i \in 1..Len(ns) :
            ns[i].id = id /\ \A j \in 1..(i - 1) : ns[j].id # id
    ELSE 0

\* node.classification = newClassification; node.color = getNodeColor(node)
Reclassified(n, c, filters) ==
    LET m == [ n EXCEPT !.classification = c ]
    IN  [ m EXCEPT !.color = GetNodeColor(m, filters) ]

\* handleClassificationOverride after the await: the call resolved. The
\* node updated is the one this.selectedNode names now; with nothing
\* selected the assignment throws and the catch block reports it
OverrideResolves ==
    \E i \in 1..Len(overrides) :
        /\ overrides' = RemoveAt(overrides, i)
        /\ IF selectedNode = ""
           THEN /\ toasts' = << "error" >>
                /\ errorMessage' = ExtractErrorMessage(TypeErrorOnNull)
                /\ UNCHANGED nodes
           ELSE LET k == FindNodeById(nodes, selectedNode)
                IN  /\ nodes' = IF k = 0 THEN nodes
                                ELSE [ nodes EXCEPT ![k] =
                                         Reclassified(nodes[k],
                                                      overrides[i].classification,
                                                      activeFilters) ]
                    /\ toasts' = << "success" >>
                    /\ errorMessage' = ""
        /\ failedCall' = ""
        /\ failedWith' = NoError
        /\ uncaught' = FALSE
        /\ UNCHANGED << viewVars, dragVars, filterVars, callVars, overlayVars,
                        toggleVars, startupVars, requestVars, graphData, edges,
                        modelSeq, simulation, processVars, clusterVars,
                        thresholdTimeout, disconnected, selectedNode >>

InitOverride ==
    /\ ModelLoaded(FALSE)
    /\ phase = "life"

NextOverride ==
    \/ \E hit \in Hits : HandleCanvasClick(hit)
    \/ \E contactId \in AlertRowIds, pos \in NodePositions :
          HandleRiskAlertClick(contactId, pos)
    \/ CloseDetailPanel
    \/ \E c \in Classifications : HandleClassificationOverride(c)
    \/ OverrideResolves
    \/ OverrideRejects(ServerError)

SpecOverride == InitOverride /\ [][NextOverride]_vars

(***************************************************************************)
(* SpecFilter: classification badges are clicked while nodes are selected  *)
(* and reclassified                                                        *)
(***************************************************************************)
\* the classifications whose badges are clicked
FilterBadges == { "Champion", "Blocker" }

\* this.activeFilters.filter(f => f !== classification)
WithoutFilter(filters, c) == SelectSeq(filters, LAMBDA f : f # c)

\* the new value of this.activeFilters in handleFilterClick
ToggleFilter(filters, c) ==
    IF Includes(filters, c) THEN WithoutFilter(filters, c)
    ELSE Append(filters, c)

\* faulty variant of Recoloured: the nodes keep their colours
RecolouredNever(ns, filters) == ns

\* this.nodes.forEach(n => { n.color = this.getNodeColor(n); })
Recoloured(ns, filters) ==
    [ i \in 1..Len(ns) |-> [ ns[i] EXCEPT !.color = GetNodeColor(ns[i], filters) ] ]

\* handleFilterClick, for the badge of classification c
HandleFilterClick(c) ==
    /\ activeFilters' = ToggleFilter(activeFilters, c)
    /\ nodes' = Recoloured(nodes, activeFilters')
    /\ toasts' = << >>
    /\ NoFailure
    /\ UNCHANGED << viewVars, dragVars, callVars, overlayVars, toggleVars,
                    startupVars, requestVars, graphData, edges, modelSeq,
                    simulation, processVars, clusterVars, thresholdTimeout,
                    disconnected, selectedNode, overrides >>

NextFilter ==
    \/ \E c \in FilterBadges : HandleFilterClick(c)
    \/ \E hit \in Hits : HandleCanvasClick(hit)
    \/ \E c \in Classifications : HandleClassificationOverride(c)
    \/ OverrideResolves
    \/ OverrideRejects(ServerError)

SpecFilter == InitOverride /\ [][NextFilter]_vars

(***************************************************************************)
(* SpecColour: badges are clicked and the classification of the selected   *)
(* node is overridden while the graph is refreshed                         *)
(***************************************************************************)
NextColour ==
    \/ \E c \in FilterBadges : HandleFilterClick(c)
    \/ \E c \in Classifications : HandleClassificationOverride(c)
    \/ OverrideResolves
    \/ HandleRefresh
    \/ RequestResolves

SpecColour == LoadedWithSelection /\ [][NextColour]_vars

(***************************************************************************)
(* SpecHull: convexHull applied to lists of grid points                    *)
(***************************************************************************)
\* the largest coordinate of a grid point
MaxCoord == 2

\* the lengths of the point lists
HullSizes == { 3, 4 }

GridPoints == (0..MaxCoord) \X (0..MaxCoord)

PointLists == UNION { [ 1..n -> GridPoints ] : n \in HullSizes }

\* cross(O, A, B)
Cross(O, A, B) ==
    (A[1] - O[1]) * (B[2] - O[2]) - (A[2] - O[2]) * (B[1] - O[1])

\* the comparator (a, b) => a[0] - b[0] || a[1] - b[1] is negative
Before(a, b) == a[1] < b[1] \/ (a[1] = b[1] /\ a[2] < b[2])

\* p put into the sorted list behind the points that are not after it
RECURSIVE InsertPoint(_, _)
InsertPoint(sorted, p) ==
    IF sorted = << >> THEN << p >>
    ELSE IF Before(p, Head(sorted)) THEN << p >> \o sorted
    ELSE << Head(sorted) >> \o InsertPoint(Tail(sorted), p)

\* [...points].sort(comparator), a stable sort
RECURSIVE SortPoints(_)
SortPoints(points) ==
    IF points = << >> THEN << >>
    ELSE InsertPoint(SortPoints(SubSeq(points, 1, Len(points) - 1)),
                     points[Len(points)])

\* chain.pop()
Popped(chain) == SubSeq(chain, 1, Len(chain) - 1)

\* faulty variant of PopWhile: points on the line through the last two are
\* kept
RECURSIVE PopWhileRightTurn(_, _)
PopWhileRightTurn(chain, p) ==
    IF Len(chain) >= 2 /\ Cross(chain[Len(chain) - 1], chain[Len(chain)], p) < 0
    THEN PopWhileRightTurn(Popped(chain), p)
    ELSE chain

\* the while loop of convexHull: points are popped while the last two and p
\* do not turn left
RECURSIVE PopWhile(_, _)
PopWhile(chain, p) ==
    IF Len(chain) >= 2 /\ Cross(chain[Len(chain) - 1], chain[Len(chain)], p) <= 0
    THEN PopWhile(Popped(chain), p)
    ELSE chain

\* one for loop of convexHull over the points pts, from its i-th
RECURSIVE BuildChain(_, _, _)
BuildChain(pts, i, chain) ==
    IF i > Len(pts) THEN chain
    ELSE BuildChain(pts, i + 1, Append(PopWhile(chain, pts[i]), pts[i]))

Reversed(seq) == [ i \in 1..Len(seq) |-> seq[Len(seq) + 1 - i] ]

\* convexHull(points)
ConvexHull(points) ==
    IF Len(points) < 3 THEN points
    ELSE LET sorted == SortPoints(points)
             lower  == BuildChain(sorted, 1, << >>)
             upper  == BuildChain(Reversed(sorted), 1, << >>)
         IN  Popped(lower) \o Popped(upper)

\* the component at rest, before a function is applied to an input
InitCall ==
    /\ EmptyModelLoaded
    /\ ViewAtRest
    /\ phase = "call"

\* convexHull is applied to a list of points
ConvexHullCalled ==
    /\ phase = "call"
    /\ \E points \in PointLists :
          /\ input' = points
          /\ output' = ConvexHull(points)
    /\ phase' = "hull"
    /\ UNCHANGED << viewVars, dragVars, filterVars, overlayVars, failureVars,
                    selectionVars, toggleVars, startupVars, requestVars,
                    modelVars, payload, clusterVars, thresholdTimeout,
                    disconnected, toasts >>

NextHull == ConvexHullCalled

SpecHull == InitCall /\ [][NextHull]_vars

(***************************************************************************)
(* SpecHit: findNodeAt applied to node lists and world points              *)
(***************************************************************************)
\* the radii of the nodes
HitRadii == { 1, 2 }

\* the node types, which decide the shape a node is drawn with
HitNodeTypes == { "Contact", "Opportunity" }

\* the lengths of the node lists
HitListSizes == { 0, 1, 2 }

\* a node as findNodeAt reads it
HitNodes ==
    [ x : 0..MaxCoord, y : 0..MaxCoord, radius : HitRadii, nodeType : HitNodeTypes ]

HitNodeLists == UNION { [ 1..n -> HitNodes ] : n \in HitListSizes }

\* dx * dx + dy * dy < node.radius * node.radius
Within(n, x, y) ==
    (x - n.x) * (x - n.x) + (y - n.y) * (y - n.y) < n.radius * n.radius

\* faulty variant of ScanFrom: the loop runs from the first node on, i
\* counts the nodes still to visit
RECURSIVE ScanForward(_, _, _, _)
ScanForward(ns, i, x, y) ==
    IF i = 0 THEN 0
    ELSE IF Within(ns[Len(ns) + 1 - i], x, y) THEN Len(ns) + 1 - i
    ELSE ScanForward(ns, i - 1, x, y)

\* the loop of findNodeAt from node i down to the first; 0 stands for null
RECURSIVE ScanFrom(_, _, _, _)
ScanFrom(ns, i, x, y) ==
    IF i = 0 THEN 0
    ELSE IF Within(ns[i], x, y) THEN i
    ELSE ScanFrom(ns, i - 1, x, y)

\* findNodeAt(x, y) with this.nodes = ns: the place of the node returned
FindNodeAt(ns, x, y) == ScanFrom(ns, Len(ns), x, y)

\* findNodeAt is applied to a node list and a point
FindNodeAtCalled ==
    /\ phase = "call"
    /\ \E ns \in HitNodeLists, x \in 0..MaxCoord, y \in 0..MaxCoord :
          /\ input' = [ nodes |-> ns, x |-> x, y |-> y ]
          /\ output' = FindNodeAt(ns, x, y)
    /\ phase' = "hit"
    /\ UNCHANGED << viewVars, dragVars, filterVars, overlayVars, failureVars,
                    selectionVars, toggleVars, startupVars, requestVars,
                    modelVars, payload, clusterVars, thresholdTimeout,
                    disconnected, toasts >>

NextHit == FindNodeAtCalled

SpecHit == InitCall /\ [][NextHit]_vars

(***************************************************************************)
(* SpecFrame: the hull step of renderCanvas applied to the clusters of a   *)
(* frame                                                                   *)
(***************************************************************************)
\* the numbers of members of the first cluster
FrameClusterSizes == { 1, 2, 3 }

\* the positions of the members of the first cluster
FrameClusters == UNION { [ 1..n -> GridPoints ] : n \in FrameClusterSizes }

\* the other clusters of the frame: none, one of a single member, one of
\* three members that are not on a line
OtherClusters ==
    { << >>,
      << << << 0, 0 >> >> >>,
      << << << 0, 0 >>, << 1, 0 >>, << 0, 1 >> >> >> }

\* the hull step draws for a cluster with these member positions: the hull
\* has to be of 3 or more vertices
DrawsHull(points) ==
    Len(points) >= 2 /\ Len(ConvexHull(points)) >= 3

\* the clusters renderCanvas fills a hull and writes a label for, by their
\* place in this.clusters
HullsDrawn(clusters) ==
    IF Len(clusters) > 1
    THEN { c \in 1..Len(clusters) : DrawsHull(clusters[c]) }
    ELSE {}

\* renderCanvas draws the hulls of a frame
HullsRendered ==
    /\ phase = "call"
    /\ \E first \in FrameClusters, others \in OtherClusters :
          /\ input' = << first >> \o others
          /\ output' = HullsDrawn(<< first >> \o others)
    /\ phase' = "frame"
    /\ UNCHANGED << viewVars, dragVars, filterVars, overlayVars, failureVars,
                    selectionVars, toggleVars, startupVars, requestVars,
                    modelVars, payload, clusterVars, thresholdTimeout,
                    disconnected, toasts >>

NextFrame == HullsRendered

SpecFrame == InitCall /\ [][NextFrame]_vars

(***************************************************************************)
(* Properties.  The predicates of this section restate the specification   *)
(* in its own terms; where one of them names an operator that models the   *)
(* code, it compares the state with what that operator yields.             *)
(***************************************************************************)
\* a node flagged as moved, with a destination name
FlaggedWithDestination(n) == n.hasMovedCompany = TRUE /\ n.previousCompany # ""

\* a primary Organization node: an Account that is no hierarchy member
PrimaryOrganization(n) == n.nodeType = "Account" /\ n.isHierarchyAccount = FALSE

\* the positions of the synthetic destination nodes of the render model
SyntheticNodes == { i \in 1..Len(nodes) : nodes[i].nodeType = "Moved_To_Company" }

\* the positions of the edges of the render model that have the given type
EdgesOfType(type) == { k \in 1..Len(edges) : edges[k].edgeType = type }

\* the ids of the payload's nodes
PayloadIds == { payload.nodes[i].id : i \in 1..Len(payload.nodes) }

\* the partition of the Contact nodes that their cluster ids describe
PartitionOf(ns) == { ClusterMembers(ns, c) : c \in ClusterIds(ns) }

\* C1: a response to an older load / refresh request is never applied over
\* the render model built from a newer request (the latest-issued request
\* wins, whatever order the responses arrive in)
C1_StaleResponseNeverApplied == [][modelSeq' >= modelSeq]_vars

\* C2: teardown is final: once disconnectedCallback has run, no step issues
\* a data load, rebuilds the render model or leaves a simulation running
C2_TeardownIsFinal ==
    [][disconnected =>
         /\ nextSeq' = nextSeq
         /\ modelSeq' = modelSeq
         /\ simulation' # "running"]_vars

\* C3: after a null payload or a payload without a nodes list has been
\* processed (graphData is the empty model), the render model has zero nodes
\* and zero edges, whatever state the component was in before
C3_NullPayloadGivesEmptyModel ==
    graphData = "empty" => (Len(nodes) = 0 /\ Len(edges) = 0)

\* C4: the output of processGraphData holds account_relationship edges iff
\* hierarchy mode is on: with hierarchy off it holds none, with hierarchy on
\* it holds every account_relationship edge of the payload whose two ends
\* are payload nodes
C4_OrgRelationshipIffHierarchy ==
    phase = "processed" =>
        LET payloadOrgRel ==
                { k \in 1..Len(payload.edges) :
                    /\ payload.edges[k].edgeType = "account_relationship"
                    /\ payload.edges[k].source \in PayloadIds
                    /\ payload.edges[k].target \in PayloadIds }
        IN  IF showHierarchy
            THEN /\ Cardinality(EdgesOfType("account_relationship"))
                      = Cardinality(payloadOrgRel)
                 /\ \A k \in payloadOrgRel :
                      \E j \in EdgesOfType("account_relationship") :
                        /\ nodes[edges[j].source].id = payload.edges[k].source
                        /\ nodes[edges[j].target].id = payload.edges[k].target
            ELSE EdgesOfType("account_relationship") = {}

C4_Witness ==
    /\ phase = "processed"
    /\ showHierarchy
    /\ EdgesOfType("account_relationship") # {}

\* C5: referential integrity: after every sequence of loads and refreshes
\* the source and the target of every edge of the render model are nodes of
\* the current node list
C5_ReferentialIntegrity ==
    \A k \in 1..Len(edges) :
        /\ edges[k].source \in 1..Len(nodes)
        /\ edges[k].target \in 1..Len(nodes)

C5_Witness ==
    /\ modelSeq >= 2
    /\ ~showHierarchy
    /\ EdgesOfType("moved_to") # {}
    /\ EdgesOfType("co_occurrence") # {}

\* C6: with hierarchy off the output node set holds no primary Organization
\* node and every other payload node; with hierarchy on it holds every
\* payload node, the primary Organization node included
C6_PrimaryOrganizationFilter ==
    phase = "processed" =>
        LET expected ==
                SelectSeq(payload.nodes,
                          LAMBDA n : showHierarchy \/ ~PrimaryOrganization(n))
            real == SelectSeq(nodes, LAMBDA n : n.nodeType # "Moved_To_Company")
        IN  /\ Len(real) = Len(expected)
            /\ \A i \in 1..Len(real) :
                 /\ real[i].id = expected[i].id
                 /\ real[i].nodeType = expected[i].nodeType
            /\ ~showHierarchy => \A i \in 1..Len(nodes) : ~PrimaryOrganization(nodes[i])

C6_Witness ==
    /\ phase = "processed"
    /\ ~showHierarchy
    /\ \E i \in 1..Len(payload.nodes) : PrimaryOrganization(payload.nodes[i])
    /\ Len(nodes) >= 2

\* C7: the synthetic destination nodes correspond one to one to the nodes
\* flagged moved with a destination name: their numbers are equal, each
\* synthetic node is the target of exactly one moved_to edge and the source
\* of that edge is its originating node, and flagging one node adds exactly
\* one node and one edge to the model of the same payload unflagged
C7_SyntheticCorrespondence ==
    phase = "processed" =>
        LET flagged == { i \in 1..Len(nodes) : FlaggedWithDestination(nodes[i]) }
            inbound(s) == { k \in EdgesOfType("moved_to") : edges[k].target = s }
            flaggedInPayload ==
                { i \in 1..Len(payload.nodes) :
                    FlaggedWithDestination(payload.nodes[i]) }
            unflagged(i) ==
                [ payload EXCEPT !.nodes[i].hasMovedCompany = FALSE ]
        IN  /\ Cardinality(SyntheticNodes) = Cardinality(flagged)
            /\ Cardinality(EdgesOfType("moved_to")) = Cardinality(flagged)
            /\ \A s \in SyntheticNodes :
                 /\ Cardinality(inbound(s)) = 1
                 /\ \A k \in inbound(s) :
                      /\ edges[k].source \in flagged
                      /\ nodes[edges[k].source].previousCompanyId \in { "", nodes[s].id }
            /\ \A o \in flagged :
                 Cardinality({ k \in EdgesOfType("moved_to") : edges[k].source = o }) = 1
            /\ \A i \in flaggedInPayload :
                 LET other == BuiltModel(unflagged(i), showHierarchy)
                 IN  /\ Len(nodes) = Len(other.nodes) + 1
                     /\ Len(edges) = Len(other.edges) + 1

C7_Witness ==
    /\ phase = "processed"
    /\ Cardinality(SyntheticNodes) = 2
    /\ \E i \in 1..Len(nodes) :
         nodes[i].hasMovedCompany /\ ~FlaggedWithDestination(nodes[i])

\* C8: for a payload whose node ids are pairwise distinct, no two nodes of
\* the model built by processGraphData share an id, synthetic destination
\* nodes included
C8_NodeIdsUnique ==
    phase = "processed" =>
        \A i, j \in 1..Len(nodes) : nodes[i].id = nodes[j].id => i = j

\* C9: every run of computeClusters on a graph (every visiting order in
\* every pass) ends with the same partition of the Contact nodes
C9_PartitionStable ==
    phase = "clustered" =>
        \A l \in ClusterOutcomes(nodes, edges) :
            PartitionOf(AssignClusters(nodes, l)) = PartitionOf(nodes)

\* C10: when the co_occurrence edges form k pairwise disconnected pairs of
\* Contact nodes and there is no other Contact node, computeClusters yields
\* exactly k clusters, each holding exactly one pair
PairsOnly ==
    /\ Len(edges) >= 1
    /\ \A k \in 1..Len(edges) :
         edges[k].edgeType = "co_occurrence" /\ edges[k].source # edges[k].target
    /\ \A i \in 1..Len(nodes) :
         /\ nodes[i].nodeType = "Contact"
         /\ Cardinality({ k \in 1..Len(edges) :
                            edges[k].source = i \/ edges[k].target = i }) = 1

C10_PairsGiveOneClusterEach ==
    (phase = "clustered" /\ PairsOnly) =>
        /\ Cardinality(ClusterIds(nodes)) = Len(edges)
        /\ PartitionOf(nodes)
             = { { edges[k].source, edges[k].target } : k \in 1..Len(edges) }

C10_Witness ==
    /\ phase = "clustered"
    /\ PairsOnly
    /\ Len(edges) = 2

RECURSIVE SupportAcc(_, _, _)
\* the summed weight of the first k edges that join node i to a neighbour
\* whose label is l
SupportAcc(i, l, k) ==
    IF k = 0 THEN 0
    ELSE LET e == edges[k]
             joins(a, b) == /\ e.edgeType = "co_occurrence"
                            /\ a = i
                            /\ nodes[b].id \in DOMAIN labels
                            /\ labels[nodes[b].id] = l
             w == IF e.interactionCount = 0 THEN 1 ELSE e.interactionCount
         IN  SupportAcc(i, l, k - 1)
               + (IF joins(e.source, e.target) THEN w ELSE 0)
               + (IF joins(e.target, e.source) THEN w ELSE 0)

\* the weighted support of label l among the neighbours of node i
Support(i, l) == SupportAcc(i, l, Len(edges))

\* the labels of the neighbours of node i
NeighbourLabels(i) ==
    { l \in { labels[id] : id \in DOMAIN labels } : Support(i, l) > 0 }

\* C11: a Contact node visited in a propagation pass changes its label only
\* to a label whose summed neighbour weight is strictly larger than that of
\* every other label among its neighbours, and keeps its label when that
\* label is tied for the largest support
C11_LabelChangeNeedsStrictMajority ==
    (phase = "propagate" /\ iter < MaxPasses) =>
        \A i \in 1..Len(nodes) :
            nodes[i].nodeType = "Contact" =>
                LET cur == labels[nodes[i].id]
                    new == VisitLabel(nodes[i].id, labels, Adjacency(nodes, edges))
                    nbl == NeighbourLabels(i)
                IN  /\ new # cur =>
                          \A l \in nbl \ { new } : Support(i, new) > Support(i, l)
                    /\ (cur \in nbl /\ \A l \in nbl : Support(i, cur) >= Support(i, l))
                          => new = cur

\* C12: after any sequence of wheel zooms, toolbar zooms and zoom resets,
\* interleaved with pans and resizes, the view scale k is within [0.1, 5]
C12_ScaleWithinBounds ==
    /\ ~Exceeds(MinScale, transform.k)
    /\ ~Exceeds(transform.k, MaxScale)

C12_Witness ==
    /\ phase = "view"
    /\ lastEvent = "zoomIn"
    /\ viewEvents = MaxViewEvents
    /\ transform.k = MaxScale

\* C13: from scale 1, every wheel zoom-in event either raises the scale or
\* finds it at exactly 5 and leaves it there, and after finitely many
\* events (MaxWheelEvents at the latest) the scale is exactly 5
C13_WheelInReachesMaxAndStays ==
    /\ [](phase = "wheel" /\ viewEvents = MaxWheelEvents
            => transform.k = MaxScale)
    /\ [][phase = "wheel" =>
            \/ Exceeds(transform'.k, transform.k)
            \/ transform.k = MaxScale /\ transform'.k = MaxScale]_vars

C13_Witness ==
    /\ phase = "wheel"
    /\ lastEvent = "wheel"
    /\ viewEvents = MaxWheelEvents
    /\ transform.k = MaxScale

\* the world coordinate shown at screen coordinate m: (m - t) / k, each
\* operation rounded
WorldPoint(m, t, k) == Over(Minus(m, t), k)

\* |a - b| <= 2^-30, a thousand-millionth of a pixel
Near(a, b) ==
    \A d \in { Minus(a, b) } :
        /\ ~Exceeds(d, Double(<< 0, 0, 0, 1024 >>, -82))
        /\ ~Exceeds(Negated(d), Double(<< 0, 0, 0, 1024 >>, -82))

\* the events that zoom about a pivot
ZoomEvents == { "wheel", "zoomIn", "zoomOut" }

\* C14: a zoom step (wheel about the pointer, toolbar about the viewport
\* centre) leaves the world point under its pivot where it was up to the
\* rounding of the operations: (m - t) / k and (m - t') / k' differ by at
\* most 2^-30 of a pixel, also when the new scale was clamped
C14_PivotFixedUpToRounding ==
    [][lastEvent' \in ZoomEvents =>
          /\ Near(WorldPoint(zoomPivot'[1], transform'.x, transform'.k),
                  WorldPoint(zoomPivot'[1], transform.x, transform.k))
          /\ Near(WorldPoint(zoomPivot'[2], transform'.y, transform'.k),
                  WorldPoint(zoomPivot'[2], transform.y, transform.k))]_vars

\* the original statement of C14: a zoom step leaves the world point under
\* its pivot exactly where it was, (m - t) / k = (m - t') / k'
C14_PivotExactlyFixed ==
    [][lastEvent' \in ZoomEvents =>
          /\ WorldPoint(zoomPivot'[1], transform'.x, transform'.k)
               = WorldPoint(zoomPivot'[1], transform.x, transform.k)
          /\ WorldPoint(zoomPivot'[2], transform'.y, transform'.k)
               = WorldPoint(zoomPivot'[2], transform.y, transform.k)]_vars

C14_Witness ==
    /\ phase = "view"
    /\ lastEvent = "wheel"
    /\ zoomPivot # << Zero, Zero >>
    /\ transform.k = MaxScale
    /\ transform.x # Zero

\* the alerts of the payload that name the subject id
AlertsOf(id) ==
    { k \in 1..Len(payload.riskAlerts) : payload.riskAlerts[k].contactId = id }

\* C15: for every list of risk alerts, in every order, the risk index maps
\* a subject id to "high" if at least one of the subject's alerts is high
\* and to "medium" if it has alerts and none is high; alerts without a
\* subject id add no entry
C15_RiskPrecedence ==
    phase = "processed" =>
        /\ DOMAIN riskNodeIds = { id \in AlertSubjects \ { "" } : AlertsOf(id) # {} }
        /\ \A id \in DOMAIN riskNodeIds :
             riskNodeIds[id]
               = IF \E k \in AlertsOf(id) : payload.riskAlerts[k].severity = "high"
                 THEN "high" ELSE "medium"

C15_Witness ==
    /\ phase = "processed"
    /\ Len(payload.riskAlerts) = MaxAlerts
    /\ AlertsOf("") # {}
    /\ \E i, j \in AlertsOf("c1") :
         /\ i < j
         /\ payload.riskAlerts[i].severity = "high"
         /\ payload.riskAlerts[j].severity = "medium"
    /\ riskNodeIds = ("c1" :> "high")

\* C16: every failed external call (graph load, refresh, classification
\* override, rendering-library initialization) is caught where it was made:
\* the step dispatches exactly one error toast and no other, ends without
\* an uncaught error, and clears the loading flag when the call was a load
\* or a refresh
C16_FailureGivesOneErrorToast ==
    failedCall # "" =>
        /\ toasts = << "error" >>
        /\ ~uncaught
        /\ failedCall = "request" => ~isLoading

\* C17: the error detail of a failed load, refresh or override follows the
\* precedence of extractErrorMessage: a plain string as it is; otherwise a
\* non-empty body.message; otherwise a non-empty message; otherwise
\* 'Unknown error'
C17_ExtractPrecedence ==
    failedCall \in { "request", "override" } =>
        LET e == failedWith
            isString == e.type = "string"
            hasBodyMessage == e.type = "object" /\ e.hasBody /\ e.bodyMessage # ""
            hasMessage == e.type = "object" /\ e.message # ""
        IN  /\ isString => errorMessage = e.text
            /\ (~isString /\ hasBodyMessage) => errorMessage = e.bodyMessage
            /\ (~isString /\ ~hasBodyMessage /\ hasMessage)
                  => errorMessage = e.message
            /\ (~isString /\ ~hasBodyMessage /\ ~hasMessage)
                  => errorMessage = "Unknown error"

C17_Witness ==
    /\ failedCall = "override"
    /\ failedWith.type = "object"
    /\ failedWith.hasBody
    /\ failedWith.bodyMessage # ""
    /\ failedWith.message # ""
    /\ errorMessage = failedWith.bodyMessage

\* C18: a failed config fetch is not fatal: the step dispatches no toast
\* and leaves config and minInteractions as they were; from then on the
\* config is the built-in one and every request carries the activity
\* threshold of 90 days; the initial load can still be issued and a
\* request in flight can still be answered and its response (here one
\* without nodes) processed
C18_ConfigFailureIsNotFatal ==
    /\ [][(configState = "pending" /\ configState' = "failed") =>
             /\ toasts' = << >>
             /\ ~uncaught'
             /\ config' = config
             /\ minInteractions' = minInteractions]_vars
    /\ [](configState = "failed" =>
             /\ config = [ minInteractions |-> 0, activityThresholdDays |-> 0 ]
             /\ \A r \in inflight : r.thresholdDays = DefaultThresholdDays
             /\ (d3 = "loading" /\ nextSeq <= MaxRequests) => ENABLED D3Loaded
             /\ inflight # {} => ENABLED (graphData' = "empty" /\ RequestResolves))

C18_Witness ==
    /\ configState = "failed"
    /\ graphData = "data"
    /\ Len(nodes) > 0
    /\ \E r \in inflight : r.thresholdDays = DefaultThresholdDays

\* C19: in a burst of threshold changes no change issues a request; when the
\* debounce timer fires, exactly one load request is issued and it carries
\* the last value entered (the value the last change saved)
C19_BurstIssuesOneLoadWithLastValue ==
    [][/\ (thresholdTimeout' /\ (~thresholdTimeout \/ storage' # storage)) =>
             /\ inflight' = inflight
             /\ nextSeq' = nextSeq
       /\ (thresholdTimeout /\ ~thresholdTimeout') =>
             /\ nextSeq' = nextSeq + 1
             /\ \E r \in inflight' \ inflight :
                  /\ inflight' = inflight \cup { r }
                  /\ r.kind = "load"
                  /\ r.seq = nextSeq
                  /\ r.minInteractions = storage.minInteractions]_vars

\* C20: the first load request after connect carries the saved toggle state
\* when there is one, and otherwise hidePassive = ~showAllContacts and
\* minInteractions = defaultMinInteractions, whatever the order of the
\* config fetch and the library load
C20_FirstLoadCarriesSavedOrDefaults ==
    \A r \in inflight :
        r.kind = "load" =>
            IF storage.present
            THEN /\ r.hidePassive = storage.hidePassive
                 /\ r.showExternalContacts = storage.showExternalContacts
                 /\ r.showHierarchy = storage.showHierarchy
                 /\ r.minInteractions = storage.minInteractions
            ELSE /\ \E showAllContacts \in ShowAllContactsValues :
                      r.hidePassive = ~showAllContacts
                 /\ r.minInteractions \in DefaultMinInteractionsValues

\* C21: whenever no drag is in progress, no node other than the hierarchy
\* anchor is pinned and the solver's temperature target is at rest
C21_NoPinOutsideDrag ==
    draggedNode = NoDrag =>
        /\ \A i \in 1..Len(nodes) : nodes[i].pinned => IsPrimaryAccount(nodes[i])
        /\ alphaTarget = 0

\* the hierarchy anchor of the model on display: the first primary Account
\* node of this.nodes, which only a model built in hierarchy mode has
IsAnchor(i) ==
    /\ IsPrimaryAccount(nodes[i])
    /\ \A j \in 1..(i - 1) : ~IsPrimaryAccount(nodes[j])

\* C22: once layout has started on a model built in hierarchy mode, the
\* primary Organization node has a pin whenever no drag is in progress, also
\* after a drag that ended on it
C22_AnchorStaysPinned ==
    (simulation # "none" /\ draggedNode = NoDrag) =>
        \A i \in 1..Len(nodes) : IsAnchor(i) => nodes[i].pinned

\* C23: the click delivered after a drag (a press on a node, one or more
\* moves, the release) leaves the selection as it was; any other click
\* selects the node it hits and clears the selection when it hits none
C23_ClickAfterDragSelectsNothing ==
    [][(lastEvent' = "click" /\ viewEvents' = viewEvents + 1) =>
          IF lastEvent = "dragend"
          THEN selectedNode' = selectedNode
          ELSE selectedNode' = IF lastHit' > 0 THEN nodes[lastHit'].id ELSE ""]_vars

\* C24: when an override call issued for subject S succeeds, the node with
\* id S gets the new classification and its colour, no other node changes,
\* one success toast and no other toast is dispatched and no load is
\* issued, whatever the selection is by then
C24_OverrideUpdatesItsSubject ==
    [][(Len(overrides') < Len(overrides) /\ failedCall' # "override") =>
          \E i \in 1..Len(overrides) :
              /\ overrides' = RemoveAt(overrides, i)
              /\ Len(nodes') = Len(nodes)
              /\ \A k \in 1..Len(nodes) :
                    IF nodes[k].id = overrides[i].contactId
                    THEN nodes'[k] = Reclassified(nodes[k],
                                                   overrides[i].classification,
                                                   activeFilters)
                    ELSE nodes'[k] = nodes[k]
              /\ toasts' = << "success" >>
              /\ inflight' = inflight
              /\ nextSeq' = nextSeq]_vars

\* the members of a list
Members(seq) == { seq[i] : i \in 1..Len(seq) }

\* a contact drawn with its classification colour or greyed out
FilterableContact(n) ==
    n.nodeType = "Contact" /\ ~n.hasMovedCompany

\* C25: a click on a classification badge toggles that classification in
\* the active filter set and recolours the nodes (a contact is grey exactly
\* when filters are active and its classification is not among them) and
\* changes nothing else: no load, the same simulation, positions, pins,
\* edges, clusters, transform and selection; a second click on the same
\* badge restores the filter set and every node colour
C25_FilterClickOnlyRecolours ==
    [][activeFilters' # activeFilters =>
          \E c \in FilterBadges :
              /\ Members(activeFilters') =
                    IF c \in Members(activeFilters)
                    THEN Members(activeFilters) \ { c }
                    ELSE Members(activeFilters) \cup { c }
              /\ Len(nodes') = Len(nodes)
              /\ \A i \in 1..Len(nodes) :
                    /\ [ nodes'[i] EXCEPT !.color = nodes[i].color ] = nodes[i]
                    /\ FilterableContact(nodes[i]) =>
                          ( nodes'[i].color = "#e0e0e0" <=>
                              ( activeFilters' # << >>
                                /\ nodes[i].classification
                                      \notin Members(activeFilters') ) )
              /\ UNCHANGED << inflight, nextSeq, simulation, alphaTarget,
                              draggedNode, hoveredNode, edges, clusterVars, transform,
                              selectedNode, graphData, modelSeq, overrides,
                              toggleVars >>
              /\ LET again == ToggleFilter(activeFilters', c)
                 IN  /\ Members(again) = Members(activeFilters)
                     /\ Recoloured(nodes', again) = nodes]_vars

\* a badge was clicked while a reclassified contact is shown: the contact is
\* greyed out by a filter that does not name its classification
C25_Witness ==
    /\ activeFilters # << >>
    /\ \E i \in 1..Len(nodes) :
          /\ FilterableContact(nodes[i])
          /\ nodes[i].classification \in Classifications
          /\ nodes[i].classification \notin Members(activeFilters)
          /\ nodes[i].color = "#e0e0e0"

\* the points of the list are on one line
AllCollinear(points) ==
    \A i, j, k \in 1..Len(points) : Cross(points[i], points[j], points[k]) = 0

\* the vertex after vertex i of a polygon
NextVertex(hull, i) == hull[(i % Len(hull)) + 1]

\* p is between a and b on the line through them
OnSegment(a, b, p) ==
    /\ Cross(a, b, p) = 0
    /\ (a[1] <= p[1] /\ p[1] <= b[1]) \/ (b[1] <= p[1] /\ p[1] <= a[1])
    /\ (a[2] <= p[2] /\ p[2] <= b[2]) \/ (b[2] <= p[2] /\ p[2] <= a[2])

\* C26: for a list of three or more grid points, duplicates and collinear
\* lists included, the vertices convexHull returns are input points; when
\* the points are not on one line the vertices are three or more, every
\* vertex turns left (a convex polygon) and no input point is to the right
\* of an edge (on or inside); when they are on one line the hull is the
\* segment between two input points and every input point is on it
C26_HullIsConvexAndContains ==
    phase = "hull" =>
        /\ \A i \in 1..Len(output) : \E j \in 1..Len(input) : output[i] = input[j]
        /\ IF AllCollinear(input)
           THEN /\ Len(output) = 2
                /\ \A j \in 1..Len(input) :
                      OnSegment(output[1], output[2], input[j])
           ELSE /\ Len(output) >= 3
                /\ \A i \in 1..Len(output) :
                      Cross(output[i], NextVertex(output, i),
                            NextVertex(output, (i % Len(output)) + 1)) > 0
                /\ \A i \in 1..Len(output), j \in 1..Len(input) :
                      Cross(output[i], NextVertex(output, i), input[j]) >= 0

\* the hull of four points was computed: two of them are the same point,
\* the points are not on one line and the hull is a triangle
C26_Witness ==
    /\ phase = "hull"
    /\ Len(input) = 4
    /\ \E i, j \in 1..4 : i # j /\ input[i] = input[j]
    /\ ~AllCollinear(input)
    /\ Len(output) = 3

\* C27: a node without an id and an edge whose source equals its target are
\* left out of the render model processGraphData builds, and processing a
\* payload that contains them raises no exception and shows no error toast
C27_MalformedEntriesOmitted ==
    phase = "processed" =>
        /\ \A i \in 1..Len(nodes) : nodes[i].id # ""
        /\ \A i \in 1..Len(edges) : edges[i].source # edges[i].target
        /\ ~uncaught
        /\ failedCall = ""
        /\ \A i \in 1..Len(toasts) : toasts[i] # "error"

\* C28: the initial load is issued only after the library initialised: while
\* it has not, a load is issued only by a toggle, a refresh or the threshold
\* timer; when initialisation fails, that step shows exactly one error toast
\* and issues no load, and from then on no simulation is started, whatever
\* toggle, refresh or threshold actions follow
C28_FailedLibraryLeavesComponentInert ==
    [][/\ (d3 = "loading" /\ d3' = "failed") =>
             /\ toasts' = << "error" >>
             /\ ~uncaught'
             /\ inflight' = inflight
       /\ d3' = "failed" => simulation' = "none"
       /\ d3' # "ready" =>
             \A r \in inflight' \ inflight :
                \/ r.kind = "refresh"
                \/ toggleVars' # toggleVars
                \/ (thresholdTimeout /\ ~thresholdTimeout')]_vars

\* how often the toast t is in the list
ToastCount(list, t) == Cardinality({ i \in 1..Len(list) : list[i] = t })

\* the payload without its notices
WithoutNotices(p) == WithNotices(p, FALSE, 0, << >>)

\* the original statement of C29: processing any payload shows the truncation
\* warning toast exactly when the payload is flagged truncated and an info
\* toast exactly when its warnings list is not empty
C29_NoticesForEveryPayload ==
    phase = "processed" =>
        /\ ToastCount(toasts, "warning") = IF payload.isTruncated THEN 1 ELSE 0
        /\ ToastCount(toasts, "info") = IF payload.warnings # << >> THEN 1 ELSE 0

\* C29: processing a payload that has a node list shows the truncation
\* warning toast exactly when the payload is flagged truncated and an info
\* toast exactly when its warnings list is not empty, and the nodes and edges
\* built are the ones built from the same payload without isTruncated,
\* totalContactCount and warnings; processing a payload without a node list
\* shows no toast, whatever its flags, and leaves nodes and edges as they were
C29_NoticesAreSideChannel ==
    /\ (phase = "processed" /\ payload.kind = "data") =>
        /\ ToastCount(toasts, "warning") = IF payload.isTruncated THEN 1 ELSE 0
        /\ ToastCount(toasts, "info") = IF payload.warnings # << >> THEN 1 ELSE 0
        /\ Len(toasts) = ToastCount(toasts, "warning") + ToastCount(toasts, "info")
        /\ LET built == BuiltModel(WithoutNotices(payload), showHierarchy)
           IN  /\ edges = built.edges
               /\ \E l \in ClusterOutcomes(built.nodes, built.edges) :
                     nodes = StartSimulationNodes(
                                AssignClusters(built.nodes, l), showHierarchy, d3)
    /\ (phase = "processed" /\ payload.kind # "data") =>
        /\ toasts = << >>
        /\ nodes = << >>
        /\ edges = << >>

\* a payload with nodes that is not flagged truncated but names a contact
\* total and carries warnings was processed
C29_Witness ==
    /\ phase = "processed"
    /\ payload.kind = "data"
    /\ ~payload.isTruncated
    /\ payload.totalContactCount > 0
    /\ payload.warnings # << >>
    /\ Len(nodes) > 0
    /\ toasts = << "info" >>

\* the places of the nodes whose centre is at squared distance less than the
\* squared radius from the point of the call
NodesUnderPoint ==
    { i \in 1..Len(input.nodes) :
        (input.x - input.nodes[i].x) * (input.x - input.nodes[i].x)
          + (input.y - input.nodes[i].y) * (input.y - input.nodes[i].y)
        < input.nodes[i].radius * input.nodes[i].radius }

\* C30: findNodeAt returns the node with the highest list index among the
\* nodes whose centre is at squared distance strictly less than the squared
\* radius from the point, and null when there is none, whatever the node
\* types are
C30_HitIsTopmostWithinRadius ==
    phase = "hit" =>
        IF NodesUnderPoint = {} THEN output = 0
        ELSE /\ output \in NodesUnderPoint
             /\ \A i \in NodesUnderPoint : i <= output

\* two nodes of different types lie under the point and the second is
\* returned
C30_Witness ==
    /\ phase = "hit"
    /\ NodesUnderPoint = { 1, 2 }
    /\ input.nodes[1].nodeType # input.nodes[2].nodeType
    /\ output = 2

\* C31: in a frame a hull with its label is drawn for a cluster exactly when
\* more than one cluster exists and the cluster has at least 2 members
C31_HullIffTwoMembers ==
    phase = "frame" =>
        \A c \in 1..Len(input) :
            c \in output <=> (Len(input) > 1 /\ Len(input[c]) >= 2)

\* the place in the node list of the first member of cluster c
FirstMember(ns, c) ==
    CHOOSE i \in ClusterMembers(ns, c) : \A j \in ClusterMembers(ns, c) : i <= j

\* C32: after computeClusters the cluster ids in use are exactly 0..n-1,
\* numbered in the order in which the first member of each cluster appears
\* in the node list; every Contact node has one cluster id in that range,
\* every cluster has a member, and every other node has cluster id -1
C32_ClusterIdsDenseInFirstSeenOrder ==
    (phase = "processed" /\ payload.kind = "data") =>
        LET ids == ClusterIds(nodes)
        IN  /\ ids = 0..(Cardinality(ids) - 1)
            /\ \A i \in 1..Len(nodes) :
                  IF nodes[i].nodeType = "Contact"
                  THEN nodes[i].clusterId \in ids
                  ELSE nodes[i].clusterId = -1
            /\ \A c \in ids : ClusterMembers(nodes, c) # {}
            /\ \A c, d \in ids :
                  c < d => FirstMember(nodes, c) < FirstMember(nodes, d)

\* a model of two clusters was built: the first Contact node shares its
\* cluster with a later one, a Contact node between them has its own, and a
\* node that is no Contact is in none
C32_Witness ==
    /\ phase = "processed"
    /\ ClusterIds(nodes) = { 0, 1 }
    /\ \E i, j, k \in 1..Len(nodes) :
          /\ i < j /\ j < k
          /\ nodes[i].clusterId = 0 /\ nodes[k].clusterId = 0
          /\ nodes[j].clusterId = 1
    /\ \E i \in 1..Len(nodes) : nodes[i].nodeType # "Contact"

\* the original statement of C33, its dimming clause: each node that has not
\* moved and whose classification a non-empty filter set leaves out is
\* "#e0e0e0"
C33_ExcludedNodeIsDimmed ==
    \A i \in 1..Len(nodes) :
        ( ~nodes[i].hasMovedCompany
          /\ activeFilters # << >>
          /\ nodes[i].classification \notin Members(activeFilters) )
           => nodes[i].color = "#e0e0e0"

\* C33: in every state reached by loads, badge clicks and classification
\* overrides that succeed, the stored colour of each node is the one
\* getNodeColor derives from its type, moved flag, classification and the
\* current active filters: a moved contact is "#bdbdbd" whatever the
\* filters, a contact that has not moved and whose classification a
\* non-empty filter set leaves out is "#e0e0e0", and a node of any other
\* type has the colour of its type whatever the filters
C33_StoredColourIsDerivedColour ==
    \A i \in 1..Len(nodes) :
        /\ nodes[i].color = GetNodeColor(nodes[i], activeFilters)
        /\ nodes[i].hasMovedCompany => nodes[i].color = "#bdbdbd"
        /\ ( FilterableContact(nodes[i])
             /\ activeFilters # << >>
             /\ nodes[i].classification \notin Members(activeFilters) )
              => nodes[i].color = "#e0e0e0"
        /\ nodes[i].nodeType # "Contact"
              => /\ nodes[i].color = GetNodeColor(nodes[i], << >>)
                 /\ nodes[i].color # "#e0e0e0"

\* a model loaded while a filter was active shows a moved contact, a dimmed
\* contact and a node of another type that the filters leave out, in the
\* colour of its type; before the load a contact was reclassified
C33_Witness ==
    /\ modelSeq > 1
    /\ activeFilters # << >>
    /\ \E i \in 1..Len(nodes) : nodes[i].hasMovedCompany
    /\ \E i \in 1..Len(nodes) :
          FilterableContact(nodes[i]) /\ nodes[i].color = "#e0e0e0"
    /\ \E i \in 1..Len(nodes) :
          /\ nodes[i].nodeType # "Contact"
          /\ nodes[i].classification \notin Members(activeFilters)
          /\ nodes[i].color # "#e0e0e0"

\* the steps computeClusters has left at most: the passes that may still
\* change a label, the pass that finds nothing to change, the assignment
StepsLeft ==
    IF phase = "propagate" THEN (MaxPasses - iter) + 2
    ELSE IF phase = "assign" THEN 1
    ELSE 0

\* C34: label propagation always terminates: a pass starts only when fewer
\* than 10 passes have changed a label, every pass that changes a label is
\* counted, the loop stops after a pass exactly when that pass changed no
\* label or was the 10th, and every step brings the end of computeClusters
\* nearer
C34_PropagationStopsWithinTenPasses ==
    [][/\ phase = "propagate" =>
             /\ iter < MaxPasses
             /\ iter' = iter + (IF labels' = labels THEN 0 ELSE 1)
             /\ phase' = "assign" <=> (labels' = labels \/ iter' = MaxPasses)
       /\ StepsLeft' < StepsLeft
       /\ StepsLeft' >= 0]_vars

\* computeClusters has returned after 10 passes that each changed a label
C34_Witness ==
    /\ phase = "clustered"
    /\ iter = MaxPasses

\* no Contact node would change its label if it were visited once more
Converged ==
    \A i \in 1..Len(nodes) :
        nodes[i].nodeType = "Contact" =>
            VisitLabel(nodes[i].id, labels, Adjacency(nodes, edges))
                = labels[nodes[i].id]

\* C40: when computeClusters returns, the labelling is a fixed point of the
\* update rule, for every graph and every visiting order
C40_LabellingConverged ==
    phase = "clustered" => Converged

\* C40, amended: when computeClusters returns after a pass that changed no
\* label, the labelling is a fixed point of the update rule; after 10
\* passes that each changed a label it need not be
C40_ConvergedUnlessTenPassesChanged ==
    (phase = "clustered" /\ iter < MaxPasses) => Converged

\* computeClusters returned after a pass that changed no label, which
\* followed passes that merged clusters
C40_Witness ==
    /\ phase = "clustered"
    /\ iter >= 2
    /\ iter < MaxPasses
    /\ Cardinality(ClusterIds(nodes)) < Len(nodes)

\* the legend drawLegend draws for the processed payload
Legend == LegendItems(riskNodeIds, MovedContactCount(payload), edges)

\* some item of the legend has the type kind
Lists(items, kind) == \E k \in 1..Len(items) : items[k] = kind

\* C35: after a payload is processed the legend lists the risk ring iff some
\* node of the model is drawn with a risk ring, the moved marker iff some node
\* of the model is flagged moved, and the moved-to arrow iff the model has a
\* moved_to edge; without any of them no legend is drawn
C35_LegendListsOverlaysOfModel ==
    (phase = "processed" /\ payload.kind = "data") =>
        /\ Lists(Legend, "ring")
             <=> \E i \in 1..Len(nodes) : HasRiskRing(nodes[i], riskNodeIds)
        /\ Lists(Legend, "moved")
             <=> \E i \in 1..Len(nodes) : nodes[i].hasMovedCompany
        /\ Lists(Legend, "arrow")
             <=> \E k \in 1..Len(edges) : edges[k].edgeType = "moved_to"
        /\ LegendDrawn(Legend) <=> Legend # << >>

\* the weight the specification gives an edge with this interactionCount
PositiveOrOne(count) == IF count > 0 THEN count ELSE 1

\* the co-occurrence edges of the model
CoOccurrenceEdges == { k \in 1..Len(edges) : edges[k].edgeType = "co_occurrence" }

\* C36: the weight a co-occurrence edge contributes in clustering is its
\* interactionCount when that is positive and 1 when it is unset, zero or
\* negative, so every weight in the adjacency lists is positive
C36_EdgeWeightPositive ==
    LET adj == Adjacency(nodes, edges)
    IN  /\ \A k \in CoOccurrenceEdges :
             EdgeWeight(edges[k].interactionCount)
               = PositiveOrOne(edges[k].interactionCount)
        /\ \A id \in DOMAIN adj : \A k \in 1..Len(adj[id]) : adj[id][k].weight > 0

\* is the hovered node a node of the model on display
HoversCurrent(hover) == hover.model = modelSeq /\ hover.index \in 1..Len(nodes)

\* C37: hoveredNode and draggedNode are each null or a node of the current
\* node list, also after a load has rebuilt the model while a node was
\* hovered or dragged
C37_InteractionReferencesNeverDangle ==
    /\ hoveredNode = NoHover \/ HoversCurrent(hoveredNode)
    /\ draggedNode = NoDrag \/ DragsCurrent(draggedNode)

\* C38: the loading flag is true whenever a load or refresh is in flight and
\* false once none is, also when requests overlap and complete at different
\* times
C38_LoadingIffRequestInFlight ==
    /\ inflight # {} => isLoading
    /\ (inflight = {} /\ nextSeq > 1) => ~isLoading

\* the call carried the values the toggles have after the step
CarriesTogglesAfterStep(r) ==
    /\ r.hidePassive = hidePassive'
    /\ r.showExternalContacts = showExternalContacts'
    /\ r.showHierarchy = showHierarchy'
    /\ r.minInteractions = minInteractions'

\* C39: a step that builds the render model from a response and leaves no
\* load or refresh in flight and no threshold timer pending has built it
\* from the payload of a call that carried the current toggle values
C39_QuiescentModelMatchesToggles ==
    [][(modelSeq' # modelSeq /\ inflight' = {} /\ ~thresholdTimeout') =>
          \A r \in inflight : r.seq = modelSeq' => CarriesTogglesAfterStep(r)]_vars

=============================================================================
